---- MODULE Spec2Model ----
(***************************************************************************)
(* Dependency resolution of a twoliter project: the vendor/override        *)
(* resolver, the Project typestate (Unlocked, SDKLocked, Locked), the lock *)
(* store and the verification tags, as implemented in                      *)
(* twoliter/src/project/mod.rs.                                            *)
(*                                                                         *)
(* Representation.  Option<T> is a sequence of length 0 (None) or 1        *)
(* (Some).  Result<T> is a record [ok, value] whose value is an Option.    *)
(* A BTreeMap is a function.  A semantic version is a natural number n     *)
(* standing for "n.0.0"; format!("v{}", version) is the pair <<"v", n>>.   *)
(***************************************************************************)
EXTENDS Naturals, Sequences, FiniteSets, Bags, TLC

\* ------------------------------------------------------------------------
\* Bounds of the model.
\* ------------------------------------------------------------------------
MaxVersion == 2
MaxOverrides == 1
MaxKits == 1
MaxHeld == 2
MaxEpoch == 2

\* The one schema version a Twoliter.toml may declare.
SUPPORTED_TWOLITER_PROJECT_SCHEMA_VERSION == 1

\* ------------------------------------------------------------------------
\* Option and Result.
\* ------------------------------------------------------------------------
None == <<>>

Some(x) == <<x>>

Ok(x) == [ok |-> TRUE, value |-> <<x>>]

Err == [ok |-> FALSE, value |-> <<>>]

\* ------------------------------------------------------------------------
\* Data model: identifiers, vendors, images, overrides.
\* ------------------------------------------------------------------------
VendorNames == {"bottlerocket", "primary"}

ImageNames == {"bottlerocket-sdk", "extra-3-kit"}

Registries == {"localhost:5000", "a.com/b"}

OverrideNames == {"my-overridden-sdk"}

OverrideRegistries == {"localhost:5001"}

Versions == 1..MaxVersion

Vendor == [registry : Registries]

Image == [name : ImageNames, version : Versions, vendor : VendorNames]

Override == [name : {None} \cup {Some(n) : n \in OverrideNames},
             registry : {None} \cup {Some(r) : r \in OverrideRegistries}]

\* Every vendor table: a map from some of the vendor names to a Vendor.
VendorTables == UNION {[S -> Vendor] : S \in SUBSET VendorNames}

\* BTreeMap<String, BTreeMap<String, Override>> holding the entries of the
\* flat map f from <<vendor name, artifact name>> to Override.
NestedOverrides(f) ==
    [v \in {k[1] : k \in DOMAIN f} |->
        [n \in {k[2] : k \in {j \in DOMAIN f : j[1] = v}} |-> f[<<v, n>>]]]

NoOverrides == [v \in {} |-> [n \in {} |-> None]]

\* Every override table with at most MaxOverrides entries.
OverrideTables ==
    {NestedOverrides(f) :
        f \in UNION {[K -> Override] :
                        K \in {S \in SUBSET (VendorNames \X ImageNames) :
                                   Cardinality(S) <= MaxOverrides}}}

\* ------------------------------------------------------------------------
\* ArtifactVendor (project/vendor.rs): Verbatim(vendor) or
\* Overridden(vendor, override); an Overridden value keeps the original vendor.
\* ------------------------------------------------------------------------
Verbatim(vv) ==
    [kind |-> "Verbatim", vendor_name |-> vv.vendor_name, vendor |-> vv.vendor,
     override_ |-> None]

verbatim(vendor_name, vendor) ==
    Verbatim([vendor_name |-> vendor_name, vendor |-> vendor])

overridden(vendor_name, vendor, override_) ==
    [kind |-> "Overridden", vendor_name |-> vendor_name, vendor |-> vendor,
     override_ |-> Some(override_)]

original_vendor(av) == [vendor_name |-> av.vendor_name, vendor |-> av.vendor]

\* The registry images of this vendor are pulled from.
registry(av) ==
    IF av.kind = "Overridden" /\ av.override_[1].registry # None
    THEN av.override_[1].registry[1]
    ELSE av.vendor.registry

\* The repository name of an image at this vendor.
repo_for(av, image) ==
    IF av.kind = "Overridden" /\ av.override_[1].name # None
    THEN av.override_[1].name[1]
    ELSE image.name

image_uri_for(av, image) ==
    [registry |-> Some(registry(av)), repo |-> repo_for(av, image),
     tag |-> <<"v", image.version>>]

\* ------------------------------------------------------------------------
\* Project::vendor_for, Project::as_project_image, ProjectImage URIs.
\* A project is a record with (at least) the fields vendor and overrides.
\* ------------------------------------------------------------------------
\* Variant: the override table is consulted before the vendor table.
vendor_for_override_first(project, artifact) ==
    LET artifact_name == artifact.name
        vendor_name == artifact.vendor
        has == /\ vendor_name \in DOMAIN project.overrides
               /\ artifact_name \in DOMAIN project.overrides[vendor_name]
    IN  IF has
        THEN Some(overridden(vendor_name,
                             IF vendor_name \in DOMAIN project.vendor
                             THEN project.vendor[vendor_name]
                             ELSE [registry |-> "a.com/b"],
                             project.overrides[vendor_name][artifact_name]))
        ELSE IF vendor_name \in DOMAIN project.vendor
             THEN Some(verbatim(vendor_name, project.vendor[vendor_name]))
             ELSE None

\* Variant: any override of the vendor applies, whatever the artifact name.
vendor_for_any_artifact(project, artifact) ==
    LET vendor_name == artifact.vendor
    IN  IF vendor_name \notin DOMAIN project.vendor
        THEN None
        ELSE LET vendor == project.vendor[vendor_name]
                 names == IF vendor_name \in DOMAIN project.overrides
                          THEN DOMAIN project.overrides[vendor_name]
                          ELSE {}
             IN  IF names # {}
                 THEN Some(overridden(vendor_name, vendor,
                                      project.overrides[vendor_name][CHOOSE n \in names : TRUE]))
                 ELSE Some(verbatim(vendor_name, vendor))

vendor_for(project, artifact) ==
    LET artifact_name == artifact.name
        vendor_name == artifact.vendor
    IN  IF vendor_name \notin DOMAIN project.vendor
        THEN None
        ELSE LET vendor == project.vendor[vendor_name]
                 override_ ==
                     IF /\ vendor_name \in DOMAIN project.overrides
                        /\ artifact_name \in DOMAIN project.overrides[vendor_name]
                     THEN Some(project.overrides[vendor_name][artifact_name])
                     ELSE None
             IN  IF override_ # None
                 THEN Some(overridden(vendor_name, vendor, override_[1]))
                 ELSE Some(verbatim(vendor_name, vendor))

from_vended_artifact(artifact) ==
    [name |-> artifact.name, version |-> artifact.version, vendor |-> artifact.vendor]

as_project_image(project, image) ==
    LET vendor == vendor_for(project, image)
    IN  IF vendor = None
        THEN Err
        ELSE Ok([image |-> from_vended_artifact(image), vendor |-> vendor[1]])

\* Variant: the URI of the effective (possibly overridden) vendor.
original_source_uri_effective(pi) == image_uri_for(pi.vendor, pi.image)

original_source_uri(pi) ==
    IF pi.vendor.kind = "Overridden"
    THEN image_uri_for(Verbatim(original_vendor(pi.vendor)), pi.image)
    ELSE image_uri_for(pi.vendor, pi.image)

\* Variant: the override is not applied.
project_image_uri_ignoring_override(pi) ==
    [registry |-> Some(pi.vendor.vendor.registry), repo |-> pi.image.name,
     tag |-> <<"v", pi.image.version>>]

project_image_uri(pi) ==
    [registry |-> Some(registry(pi.vendor)), repo |-> repo_for(pi.vendor, pi.image),
     tag |-> <<"v", pi.image.version>>]

\* ------------------------------------------------------------------------
\* Files of the project directory.
\* ------------------------------------------------------------------------
StdRegistry(v) == IF v = "bottlerocket" THEN "a.com/b" ELSE "localhost:5000"

SdkImages == [name : {"bottlerocket-sdk"}, version : {1}, vendor : VendorNames]

KitImages == [name : {"extra-3-kit"}, version : {1}, vendor : VendorNames]

KitLists == UNION {[1..n -> KitImages] : n \in 1..MaxKits}

ManifestVendorTables ==
    {[v \in S |-> [registry |-> StdRegistry(v)]] : S \in SUBSET VendorNames}

\* The contents of Twoliter.toml: schema-version, release-version, optional sdk,
\* optional vendor table, optional kit list.
Manifests(schemas) ==
    [schema_version : schemas,
     release_version : {"1.0.0"},
     sdk : {None} \cup {Some(i) : i \in SdkImages},
     vendor : {None} \cup {Some(t) : t \in ManifestVendorTables},
     kit : {None} \cup {Some(k) : k \in KitLists}]

\* Release.toml: absent, not TOML, without a version key, with a version that is
\* not a string, or with a version string.
ReleaseTomls ==
    [kind : {"absent", "unparsable", "no_version", "version_not_string"},
     version : {""}]
    \cup [kind : {"version"}, version : {"1.0.0", "2.0.0"}]

NoReleaseToml == [kind |-> "absent", version |-> ""]

\* Twoliter.override: absent, not deserializable, or an override table.
OverrideFile(kind, table) == [kind |-> kind, table |-> table]

NoOverrideFile == OverrideFile("absent", NoOverrides)

KitRegistryOverride ==
    NestedOverrides([k \in {<<"primary", "extra-3-kit">>} |->
                        [name |-> None, registry |-> Some("localhost:5001")]])

\* ------------------------------------------------------------------------
\* ValidIdentifier.  A string is the sequence of the code points of its chars.
\* ------------------------------------------------------------------------
MaxIdLen == 2

MaxDepth == 3

MaxCalls == 4

MaxLayers == 2

MaxBlobs == 3

MaxPulls == 2

MaxPart == 2

MaxEntries == 3

\* '-' '.' '/' '0' '9' ':' '@' 'A' 'Z' '[' '_' '`' 'a' 'z' '{', a space and U+00E9
CodePoints == {45, 46, 47, 48, 57, 58, 64, 65, 90, 91, 95, 96, 97, 122, 123, 32, 233}

Strings == UNION {[1..n -> CodePoints] : n \in 0..MaxIdLen}

\* Variant: a dot is a valid character too.
is_valid_id_char_or_dot(c) ==
    \/ c >= 97 /\ c <= 122
    \/ c >= 65 /\ c <= 90
    \/ c >= 48 /\ c <= 57
    \/ c = 95
    \/ c = 45
    \/ c = 46

\* 'a'..='z' | 'A'..='Z' | '0'..='9' | '_' | '-'
is_valid_id_char(c) ==
    \/ c >= 97 /\ c <= 122
    \/ c >= 65 /\ c <= 90
    \/ c >= 48 /\ c <= 57
    \/ c = 95
    \/ c = 45

\* The loop of from_str over input.chars(), from the i-th char on.
RECURSIVE all_chars_valid(_, _)
all_chars_valid(input, i) ==
    IF i > Len(input) THEN TRUE
    ELSE IF ~is_valid_id_char(input[i]) THEN FALSE
    ELSE all_chars_valid(input, i + 1)

\* ValidIdentifier::from_str
ValidIdentifier_from_str(input) ==
    IF Len(input) = 0 THEN Err
    ELSE IF ~all_chars_valid(input, 1) THEN Err
    ELSE Ok(input)

\* A TOML value where an identifier is expected: a string or something else.
TomlString(text) == [kind |-> "string", text |-> text]

TomlInteger == [kind |-> "integer", text |-> <<>>]

\* ValidIdentifier::deserialize: String::deserialize, then parse.
ValidIdentifier_deserialize(value) ==
    IF value.kind # "string" THEN Err
    ELSE ValidIdentifier_from_str(value.text)

\* Deserializing an Image table: name and vendor are identifiers.
Image_deserialize(table) ==
    LET name == ValidIdentifier_deserialize(table.name)
        vendor == ValidIdentifier_deserialize(table.vendor)
    IN  IF ~name.ok \/ ~vendor.ok THEN Err
        ELSE Ok([name |-> name.value[1], version |-> 1, vendor |-> vendor.value[1]])

\* Deserializing the names of a manifest that declares an SDK, one kit and one
\* vendor, then check_vendor_availability: what Project::load makes of them.
load_names(raw) ==
    LET sdk == Image_deserialize(raw.sdk)
        kit == Image_deserialize(raw.kit)
        vendor_key == ValidIdentifier_deserialize(raw.vendor_key)
    IN  IF ~sdk.ok \/ ~kit.ok \/ ~vendor_key.ok THEN Err
        ELSE IF \/ sdk.value[1].vendor # vendor_key.value[1]
                \/ kit.value[1].vendor # vendor_key.value[1]
        THEN Err
        ELSE Ok([sdk |-> sdk.value[1], kit |-> <<kit.value[1]>>,
                 vendor |-> [k \in {vendor_key.value[1]} |-> [registry |-> "a.com/b"]]])

\* ------------------------------------------------------------------------
\* Project<L>: the manifest, the overrides and a lock of phase L.
\* ------------------------------------------------------------------------
Unlocked == [phase |-> "Unlocked", sdk |-> None, kit |-> <<>>]

SDKLocked(locked_sdk) == [phase |-> "SDKLocked", sdk |-> Some(locked_sdk), kit |-> <<>>]

Locked(lock) == [phase |-> "Locked", sdk |-> Some(lock.sdk), kit |-> lock.kit]

Phases == {"Unlocked", "SDKLocked", "Locked"}

PhaseRank(phase) ==
    CASE phase = "Unlocked" -> 0
      [] phase = "SDKLocked" -> 1
      [] phase = "Locked" -> 2

\* Variant: every schema version is accepted.
parse_any_schema(manifest) == Ok(manifest)

\* UnvalidatedProject: toml::from_str of the manifest; SchemaVersion<1> accepts
\* only the supported schema version.
parse(manifest) ==
    IF manifest.schema_version = SUPPORTED_TWOLITER_PROJECT_SCHEMA_VERSION
    THEN Ok(manifest)
    ELSE Err

unwrap_or_default(option, default) == IF option = None THEN default ELSE option[1]

\* kits first, then the SDK, as check_vendor_availability builds the list.
dependency_list(unvalidated) ==
    unwrap_or_default(unvalidated.kit, <<>>)
        \o (IF unvalidated.sdk # None THEN <<unvalidated.sdk[1]>> ELSE <<>>)

\* Variant: only the SDK's vendor is checked.
check_vendor_availability_sdk_only(unvalidated) ==
    \A i \in DOMAIN unvalidated.sdk :
        /\ unvalidated.vendor # None
        /\ unvalidated.sdk[i].vendor \in DOMAIN unvalidated.vendor[1]

check_vendor_availability(unvalidated) ==
    LET list == dependency_list(unvalidated)
    IN  \A i \in DOMAIN list :
            /\ unvalidated.vendor # None
            /\ list[i].vendor \in DOMAIN unvalidated.vendor[1]

\* Variant: a version that differs from the release-version is let through.
check_release_toml_any_version(unvalidated, release_toml) ==
    release_toml.kind # "version_not_string"

check_release_toml(unvalidated, release_toml) ==
    CASE release_toml.kind = "absent" -> TRUE
      [] release_toml.kind = "unparsable" -> TRUE
      [] release_toml.kind = "no_version" -> TRUE
      [] release_toml.kind = "version_not_string" -> FALSE
      [] release_toml.kind = "version" ->
            release_toml.version = unvalidated.release_version

check_and_load_overrides(override_file) ==
    CASE override_file.kind = "absent" -> Ok(NoOverrides)
      [] override_file.kind = "unparsable" -> Err
      [] override_file.kind = "table" -> Ok(override_file.table)

ProjectPath == "external-kit/Twoliter.toml"

ProjectDir == "external-kit"

validate(unvalidated, path, release_toml, override_file) ==
    IF ~check_vendor_availability(unvalidated) THEN Err
    ELSE IF ~check_release_toml(unvalidated, release_toml) THEN Err
    ELSE LET overrides == check_and_load_overrides(override_file)
         IN  IF ~overrides.ok THEN Err
             ELSE Ok([filepath |-> path,
                      project_dir |-> ProjectDir,
                      schema_version |-> unvalidated.schema_version,
                      release_version |-> unvalidated.release_version,
                      sdk |-> unvalidated.sdk,
                      vendor |-> unwrap_or_default(unvalidated.vendor, <<>>),
                      kit |-> unwrap_or_default(unvalidated.kit, <<>>),
                      overrides |-> overrides.value[1],
                      lock |-> Unlocked])

\* Project::load up to the cleanup of the tags, which the Load action performs.
load(path, manifest_file, release_toml, override_file) ==
    LET unvalidated == parse(manifest_file)
    IN  IF ~unvalidated.ok THEN Err
        ELSE validate(unvalidated.value[1], path, release_toml, override_file)

\* The check of Project::load that fails first for these files, "none" when
\* they load: the manifest is deserialized, then validate checks the vendors,
\* Release.toml and the override file in that order.
load_failure(manifest_file, release_toml, override_file) ==
    LET unvalidated == parse(manifest_file)
    IN  IF ~unvalidated.ok THEN "deserialize"
        ELSE IF ~check_vendor_availability(unvalidated.value[1]) THEN "vendor"
        ELSE IF ~check_release_toml(unvalidated.value[1], release_toml) THEN "release_toml"
        ELSE IF ~check_and_load_overrides(override_file).ok THEN "overrides"
        ELSE "none"

\* What a call of Project::load returns and the tags it leaves on disk.
Loaded(result, tags_on_disk) == [result |-> result, tags |-> tags_on_disk]

\* Variant: the tags are cleaned up before the manifest is validated.
Project_load_cleanup_first(path, read_ok, manifest_file, release_toml, override_file, tags_on_disk, cleanup_left) ==
    IF ~read_ok THEN Loaded(Err, tags_on_disk)
    ELSE IF cleanup_left # {}
    THEN Loaded(Err, [k \in cleanup_left |-> tags_on_disk[k]])
    ELSE Loaded(load(path, manifest_file, release_toml, override_file), <<>>)

\* Project::load on the files of a project directory.  read_ok tells whether
\* canonicalize and read_to_string succeed; cleanup_left is the set of tags a
\* failing cleanup_existing_tags leaves behind, empty when it succeeds.
Project_load(path, read_ok, manifest_file, release_toml, override_file, tags_on_disk, cleanup_left) ==
    IF ~read_ok THEN Loaded(Err, tags_on_disk)
    ELSE LET project == load(path, manifest_file, release_toml, override_file)
         IN  IF ~project.ok THEN Loaded(Err, tags_on_disk)
             ELSE IF cleanup_left # {}
             THEN Loaded(Err, [k \in cleanup_left |-> tags_on_disk[k]])
             ELSE Loaded(project, <<>>)

\* Variant: the new project is built without the kits of the old one.
with_new_lock_without_kits(self, new_lock) ==
    [filepath |-> self.filepath,
     project_dir |-> self.project_dir,
     schema_version |-> self.schema_version,
     release_version |-> self.release_version,
     sdk |-> self.sdk,
     vendor |-> self.vendor,
     kit |-> <<>>,
     overrides |-> self.overrides,
     lock |-> new_lock]

\* Project::with_new_lock(&self, new_lock)
with_new_lock(self, new_lock) ==
    [filepath |-> self.filepath,
     project_dir |-> self.project_dir,
     schema_version |-> self.schema_version,
     release_version |-> self.release_version,
     sdk |-> self.sdk,
     vendor |-> self.vendor,
     kit |-> self.kit,
     overrides |-> self.overrides,
     lock |-> new_lock]

direct_kit_deps(project) ==
    IF \A i \in DOMAIN project.kit : as_project_image(project, project.kit[i]).ok
    THEN Ok([i \in DOMAIN project.kit |-> as_project_image(project, project.kit[i]).value[1]])
    ELSE Err

direct_sdk_image_dep(project) ==
    IF project.sdk = None THEN None ELSE Some(as_project_image(project, project.sdk[1]))

\* ------------------------------------------------------------------------
\* Lock store (project/lock): Lock::create, Lock::load, LockedSDK::load.
\* The registry serves, for an image URI, the manifest list of its current
\* revision; the digest recorded in the lock is a fingerprint of that list.
\* ------------------------------------------------------------------------
\* The external image tools (TWOLITER_KIT_IMAGE_TOOL).
ImageTools == {"docker", "crane"}

\* The manifest list the registry serves for an image URI at a revision.
registry_manifest_list(uri, rev) == [of |-> uri, rev |-> rev]

\* ImageTool::get_manifest: the manifest list as JSON text; how the text is laid
\* out (whitespace, key order) is the tool's own.
image_tool_get_manifest(image_tool, uri, rev) ==
    [json |-> registry_manifest_list(uri, rev), layout |-> image_tool]

Remote(uri) == [kind |-> "Remote", uri |-> uri, path |-> None]

\* Variant: the bytes of the tool are passed on as they came.
get_manifest_unparsed(source, manifest_bytes) == Ok(manifest_bytes)

\* OCI::get_manifest of a Remote source, given what the image tool returned:
\* serde_json::from_slice keeps the JSON value and drops the layout of the text.
get_manifest(source, manifest_bytes) == Ok(manifest_bytes.json)

\* The fingerprint of a manifest list recorded in the lock.
ManifestDigest(manifest) == [sha256 |-> manifest]

LockedImage(pi, image_tool, rev) ==
    LET uri == project_image_uri(pi)
    IN  [name |-> pi.image.name,
         version |-> pi.image.version,
         vendor |-> pi.image.vendor,
         source |-> uri,
         digest |-> ManifestDigest(
                        get_manifest(Remote(uri),
                                     image_tool_get_manifest(image_tool, uri, rev)).value[1])]

\* Lock::default(), used by the unchecked variant of create_lock.
DefaultLockedImage ==
    [name |-> "", version |-> 0, vendor |-> "",
     source |-> [registry |-> None, repo |-> "", tag |-> <<"v", 0>>],
     digest |-> ManifestDigest(
                    registry_manifest_list([registry |-> None, repo |-> "",
                                            tag |-> <<"v", 0>>], 0))]

DefaultLock == [sdk |-> DefaultLockedImage, kit |-> <<>>]

Range(f) == {f[i] : i \in DOMAIN f}

\* The images a full resolution walks: the SDK, then the kits in manifest order.
images_to_lock(project) ==
    (IF project.sdk = None THEN <<>> ELSE <<project.sdk[1]>>) \o project.kit

\* Resolution stops at the first image whose vendor cannot be resolved and at the
\* first vendor query that fails (fail_at, 0 when no query fails).
resolve_stop(project, fail_at) ==
    LET images == images_to_lock(project)
        bad == {i \in DOMAIN images : ~as_project_image(project, images[i]).ok}
    IN  [unresolved |-> bad # {},
         queried |-> {i \in DOMAIN images :
                        /\ \A b \in bad : i < b
                        /\ fail_at # 0 => i <= fail_at}]

\* The URIs Lock::create asks the vendors about.
create_queries(project, fail_at) ==
    LET images == images_to_lock(project)
    IN  {project_image_uri(as_project_image(project, images[i]).value[1]) :
            i \in resolve_stop(project, fail_at).queried}

Lock_create(project, image_tool, rev, fail_at) ==
    LET images == images_to_lock(project)
        locked(i) == LockedImage(as_project_image(project, images[i]).value[1],
                                 image_tool, rev)
    IN  IF \/ project.sdk = None
           \/ resolve_stop(project, fail_at).unresolved
           \/ fail_at # 0
        THEN Err
        ELSE Ok([sdk |-> locked(1),
                 kit |-> [i \in 1..Len(project.kit) |-> locked(i + 1)]])

\* ------------------------------------------------------------------------
\* Twoliter.lock as text: the schema version, one [sdk] table, then one [[kit]]
\* table per kit; every table lists name, version, vendor, source, digest in
\* that order.  A version n is written "n.0.0", a source as registry/repo:tag.
\* ------------------------------------------------------------------------
version_to_string(version) == <<version, ".", 0, ".", 0>>

version_from_string(text) == text[1]

\* Variant: the registry is left out of the source.
uri_to_string_without_registry(uri) == <<uri.repo, ":", uri.tag>>

uri_to_string(uri) ==
    IF uri.registry = None
    THEN <<uri.repo, ":", uri.tag>>
    ELSE <<uri.registry[1], "/", uri.repo, ":", uri.tag>>

uri_from_string(text) ==
    IF Len(text) = 3
    THEN [registry |-> None, repo |-> text[1], tag |-> text[3]]
    ELSE [registry |-> Some(text[1]), repo |-> text[3], tag |-> text[5]]

LockedImageKeys == <<"name", "version", "vendor", "source", "digest">>

\* Variant: the digest is written first.
locked_image_to_toml_digest_first(entry) ==
    <<<<"digest", entry.digest>>,
      <<"name", entry.name>>,
      <<"version", version_to_string(entry.version)>>,
      <<"vendor", entry.vendor>>,
      <<"source", uri_to_string(entry.source)>>>>

locked_image_to_toml(entry) ==
    <<<<"name", entry.name>>,
      <<"version", version_to_string(entry.version)>>,
      <<"vendor", entry.vendor>>,
      <<"source", uri_to_string(entry.source)>>,
      <<"digest", entry.digest>>>>

\* The value of a key of a table, wherever the key stands in it.
toml_get(table, key) == table[CHOOSE i \in DOMAIN table : table[i][1] = key][2]

locked_image_from_toml(table) ==
    [name |-> toml_get(table, "name"),
     version |-> version_from_string(toml_get(table, "version")),
     vendor |-> toml_get(table, "vendor"),
     source |-> uri_from_string(toml_get(table, "source")),
     digest |-> toml_get(table, "digest")]

IsKitTable(item) == item[1] = "kit"

IsSdkTable(item) == item[1] = "sdk"

\* toml::to_string(&lock)
to_toml(lock) ==
    <<<<"schema-version", SUPPORTED_TWOLITER_PROJECT_SCHEMA_VERSION>>,
      <<"sdk", locked_image_to_toml(lock.sdk)>>>>
        \o [i \in DOMAIN lock.kit |-> <<"kit", locked_image_to_toml(lock.kit[i])>>]

\* toml::from_str::<Lock>(text): one [sdk] table is required.
from_toml(text) ==
    LET sdks == SelectSeq(text, IsSdkTable)
        kits == SelectSeq(text, IsKitTable)
    IN  IF Len(sdks) # 1 THEN Err
        ELSE Ok([sdk |-> locked_image_from_toml(sdks[1][2]),
                 kit |-> [i \in DOMAIN kits |-> locked_image_from_toml(kits[i][2])]])

Triple(x) == <<x.name, x.version, x.vendor>>

declared(project) == {Triple(images_to_lock(project)[i]) : i \in DOMAIN images_to_lock(project)}

\* Variant: an entry counts as declared when its name and vendor are, whatever
\* its version.
Lock_load_by_name(project, lockfile) ==
    IF lockfile = None THEN Err
    ELSE IF ~from_toml(lockfile[1]).ok THEN Err
    ELSE LET lock == from_toml(lockfile[1]).value[1]
             names == {<<t[1], t[3]>> : t \in declared(project)}
         IN  IF \A entry \in {lock.sdk} \cup Range(lock.kit) :
                    <<entry.name, entry.vendor>> \in names
             THEN Ok(lock)
             ELSE Err

Lock_load(project, lockfile) ==
    IF lockfile = None THEN Err
    ELSE IF ~from_toml(lockfile[1]).ok THEN Err
    ELSE LET lock == from_toml(lockfile[1]).value[1]
         IN  IF \A entry \in {lock.sdk} \cup Range(lock.kit) :
                    Triple(entry) \in declared(project)
             THEN Ok(lock)
             ELSE Err

LockedSDK_load(project, lockfile) ==
    IF lockfile = None THEN Err
    ELSE IF ~from_toml(lockfile[1]).ok THEN Err
    ELSE LET lock == from_toml(lockfile[1]).value[1]
         IN  IF Triple(lock.sdk) \in declared(project)
             THEN Ok(lock.sdk)
             ELSE Err

\* ------------------------------------------------------------------------
\* Verification tagger (project/lock): one tag per verified artifact, holding
\* the digest it was verified against.  The tags on disk are a map from the
\* artifact's <<vendor, name>> to that digest.
\* ------------------------------------------------------------------------
NoTags == <<>>

TagKey(entry) == <<entry.vendor, entry.name>>

no_verifications == <<>>

cleanup_existing_tags(on_disk) == NoTags

write_tags(tagger, on_disk) ==
    LET written == {TagKey(tagger[i]) : i \in DOMAIN tagger}
        last_of(k) == CHOOSE i \in DOMAIN tagger :
                          /\ TagKey(tagger[i]) = k
                          /\ \A j \in DOMAIN tagger : TagKey(tagger[j]) = k => j <= i
    IN  [k \in DOMAIN on_disk \cup written |->
            IF k \in written THEN tagger[last_of(k)].digest ELSE on_disk[k]]

\* VerificationTagger::from(&LockedSDK) and VerificationTagger::from(&Lock).
tagger_from_locked_sdk(locked_sdk) == <<locked_sdk>>

tagger_from_lock(lock) == <<lock.sdk>> \o lock.kit

\* ProjectLock::verification_tagger of Unlocked, SDKLocked and Locked.
verification_tagger(lock) ==
    CASE lock.phase = "Unlocked" -> no_verifications
      [] lock.phase = "SDKLocked" -> tagger_from_locked_sdk(lock.sdk[1])
      [] lock.phase = "Locked" -> tagger_from_lock([sdk |-> lock.sdk[1], kit |-> lock.kit])

\* ProjectLock::load_lock of Unlocked, SDKLocked and Locked.
NL_load_lock(NL, project, lockfile) ==
    CASE NL = "Unlocked" -> Ok(Unlocked)
      [] NL = "SDKLocked" ->
            LET r == LockedSDK_load(project, lockfile)
            IN  IF r.ok THEN Ok(SDKLocked(r.value[1])) ELSE Err
      [] NL = "Locked" ->
            LET r == Lock_load(project, lockfile)
            IN  IF r.ok THEN Ok(Locked(r.value[1])) ELSE Err

\* Variant: the Locked project is built whether or not Lock::create succeeded.
create_lock_unchecked(self, lock) ==
    Ok(with_new_lock(self, Locked(IF lock.ok THEN lock.value[1] ELSE DefaultLock)))

\* Project<Unlocked>::create_lock, given what Lock::create returned.
create_lock(self, lock) ==
    IF lock.ok THEN Ok(with_new_lock(self, Locked(lock.value[1]))) ELSE Err

\* Project<Unlocked>::load_lock after the cleanup, given what NL::load_lock returned.
load_lock(self, resolved_lock) ==
    IF resolved_lock.ok THEN Ok(with_new_lock(self, resolved_lock.value[1])) ELSE Err

\* A value the caller holds, with the lock the resolution behind it returned
\* (history; None when no resolution returned one).
Held(project, origin) == [value |-> project, origin |-> origin]

\* Variant: the transition replaces the value it was called on.
returned_in_place(held, self, new) ==
    (held (-) SetToBag({Held(self, None)})) (+) SetToBag({new})

\* The values the caller holds once a transition from `self` has returned `new`:
\* with_new_lock builds a new value and leaves self as it is.
returned(held, self, new) == held (+) SetToBag({new})

\* ------------------------------------------------------------------------
\* OCI content engine (project/lock/oci.rs, project/lock/archive.rs).
\* A digest "sha256:<hex>" is the sequence <<"sha256", ":", hex>>.  The cache
\* directory is a map from the entries that exist to what they hold; a pulled
\* image is named by its digest.
\* ------------------------------------------------------------------------
MaxManifests == 1

Hexes == {"aa", "bb"}

Digests == {<<"sha256", ":", h>> : h \in Hexes}

Archs == {"amd64", "arm64"}

\* str::replace on a digest
replace(digest, from, to) ==
    [i \in DOMAIN digest |-> IF digest[i] = from THEN to ELSE digest[i]]

ManifestView == [digest : Digests, platform : {Some(a) : a \in Archs}]

ManifestListView ==
    [manifests : UNION {[1..n -> ManifestView] : n \in 0..MaxManifests}]

\* OCI::Local: a directory holding, for some architectures, an archive file;
\* an archive is named by the digest of its bytes.
LocalArchives == UNION {[S -> Digests] : S \in SUBSET Archs}

Local(archives) == [kind |-> "Local", uri |-> None, path |-> Some(archives)]

\* manifest.manifests.iter().find(|x| x.platform == Some(arch))
find_platform(manifest, arch) ==
    LET hits == {i \in DOMAIN manifest.manifests :
                    manifest.manifests[i].platform = Some(arch)}
    IN  IF hits = {} THEN None
        ELSE Some(manifest.manifests[CHOOSE i \in hits : \A j \in hits : i <= j])

\* What a cache entry or an output directory holds.
EmptyDir == [state |-> "empty", image |-> None]

PartialDir(image) == [state |-> "partial", image |-> Some(image)]

CompleteDir(image) == [state |-> "complete", image |-> Some(image)]

\* What a call of the engine did: its result, the external pulls and the archive
\* unpacks it made, and whether it removed the output directory.
Effect(ok, cache_dir, out_dir, pulls, unpacks, removed) ==
    [ok |-> ok, cache_dir |-> cache_dir, out_dir |-> out_dir,
     pulls |-> pulls, unpacks |-> unpacks, removed |-> removed]

\* The entry `path` of the cache directory now holds `dir`.
put(cache_dir, path, dir) ==
    [p \in DOMAIN cache_dir \cup {path} |-> IF p = path THEN dir ELSE cache_dir[p]]

\* The Remote branch of pull_image: pull unless the path exists.  tool_ok tells
\* whether the external pull succeeds.
pull_remote(digest, oci_archive_path, cache_dir, out_dir, tool_ok) ==
    IF oci_archive_path \notin DOMAIN cache_dir
    THEN IF tool_ok
         THEN Effect(TRUE, put(cache_dir, oci_archive_path, CompleteDir(digest)),
                     out_dir, 1, 0, FALSE)
         ELSE Effect(FALSE, put(cache_dir, oci_archive_path, PartialDir(digest)),
                     out_dir, 1, 0, FALSE)
    ELSE Effect(TRUE, cache_dir, out_dir, 0, 0, FALSE)

\* The Local branch of pull_image: the archive is opened and unpacked into the
\* path.  tool_ok tells whether the unpack runs to its end.
pull_local(archive, oci_archive_path, cache_dir, out_dir, tool_ok) ==
    IF tool_ok
    THEN Effect(TRUE, put(cache_dir, oci_archive_path, CompleteDir(archive)),
                out_dir, 0, 1, FALSE)
    ELSE Effect(FALSE, put(cache_dir, oci_archive_path, PartialDir(archive)),
                out_dir, 0, 1, FALSE)

\* Variant: without an entry for the architecture the first entry is taken.
oci_pull_image_fallback(self, arch, manifest, cache_dir, out_dir, tool_ok) ==
    LET found == find_platform(manifest, arch)
        digest == IF found = None /\ Len(manifest.manifests) > 0
                  THEN Some(manifest.manifests[1]) ELSE found
    IN  IF digest = None THEN Effect(FALSE, cache_dir, out_dir, 0, 0, FALSE)
        ELSE LET oci_archive_path == replace(digest[1].digest, ":", "-")
             IN  IF self.kind = "Remote"
                 THEN pull_remote(digest[1].digest, oci_archive_path, cache_dir,
                                  out_dir, tool_ok)
                 ELSE IF arch \notin DOMAIN self.path[1]
                      THEN Effect(FALSE, cache_dir, out_dir, 0, 0, FALSE)
                      ELSE pull_local(self.path[1][arch], oci_archive_path,
                                      cache_dir, out_dir, tool_ok)

\* OCI::pull_image
oci_pull_image(self, arch, manifest, cache_dir, out_dir, tool_ok) ==
    LET digest == find_platform(manifest, arch)
    IN  IF digest = None THEN Effect(FALSE, cache_dir, out_dir, 0, 0, FALSE)
        ELSE LET oci_archive_path == replace(digest[1].digest, ":", "-")
             IN  IF self.kind = "Remote"
                 THEN pull_remote(digest[1].digest, oci_archive_path, cache_dir,
                                  out_dir, tool_ok)
                 ELSE IF arch \notin DOMAIN self.path[1]
                      THEN Effect(FALSE, cache_dir, out_dir, 0, 0, FALSE)
                      ELSE pull_local(self.path[1][arch], oci_archive_path,
                                      cache_dir, out_dir, tool_ok)

\* OCIArchiveSource: Remote { digest } or Local { path }, the archive file named
\* by the digest of its bytes.
ArchiveRemote(digest) == [kind |-> "Remote", digest |-> digest]

ArchiveLocal(archive) == [kind |-> "Local", digest |-> archive]

\* OCIArchive::pull_image, OCIArchiveSource::pull_image
archive_pull_image(source, cache_dir, out_dir, tool_ok) ==
    LET oci_archive_path == replace(source.digest, ":", "-")
    IN  IF source.kind = "Remote"
        THEN pull_remote(source.digest, oci_archive_path, cache_dir, out_dir, tool_ok)
        ELSE pull_local(source.digest, oci_archive_path, cache_dir, out_dir, tool_ok)

\* The output directory: None while it does not exist, else its digest file
\* (the marker) and the layers it holds.
OutDir(marker, layers) == Some([marker |-> marker, layers |-> layers])

\* unpack_layers from remove_dir_all on: the directory is removed and recreated,
\* the index and the manifest are read from the cache entry, the layers are
\* unpacked in order and the marker is written last.  tool_ok tells whether the
\* extraction runs to its end.
extract_layers(oci_archive_path, marker, cache_dir, out_dir, tool_ok) ==
    IF out_dir = None THEN Effect(FALSE, cache_dir, out_dir, 0, 0, FALSE)
    ELSE IF \/ oci_archive_path \notin DOMAIN cache_dir
            \/ cache_dir[oci_archive_path].state # "complete"
    THEN Effect(FALSE, cache_dir, OutDir(None, EmptyDir), 0, 0, TRUE)
    ELSE LET image == cache_dir[oci_archive_path].image[1]
         IN  IF tool_ok
             THEN Effect(TRUE, cache_dir, OutDir(Some(marker), CompleteDir(image)),
                         0, 0, TRUE)
             ELSE Effect(FALSE, cache_dir, OutDir(None, PartialDir(image)), 0, 0, TRUE)

\* index.manifests.first().digest of a cache entry: the manifest blob of the
\* image the entry holds.
index_first_digest(cache_dir, oci_archive_path) ==
    IF /\ oci_archive_path \in DOMAIN cache_dir
       /\ cache_dir[oci_archive_path].image # None
    THEN cache_dir[oci_archive_path].image[1]
    ELSE <<>>

\* The digest an OCI value stands for when asked for an architecture
\* (self.digest): the digest of the manifest list's entry for it.
target_digest(manifest, arch) ==
    IF find_platform(manifest, arch) = None THEN None
    ELSE Some(find_platform(manifest, arch)[1].digest)

\* OCI::unpack_layers
oci_unpack_layers(self, arch, manifest, cache_dir, out_dir, tool_ok) ==
    IF /\ out_dir # None
       /\ out_dir[1].marker # None
       /\ out_dir[1].marker = target_digest(manifest, arch)
    THEN Effect(TRUE, cache_dir, out_dir, 0, 0, FALSE)
    ELSE LET digest == find_platform(manifest, arch)
         IN  IF digest = None THEN Effect(FALSE, cache_dir, out_dir, 0, 0, FALSE)
             ELSE LET oci_archive_path == replace(digest[1].digest, ":", "-")
                  IN  extract_layers(
                          oci_archive_path,
                          replace(index_first_digest(cache_dir, oci_archive_path), ":", "/"),
                          cache_dir, out_dir, tool_ok)

\* OCIArchive::unpack_layers
archive_unpack_layers(source, cache_dir, out_dir, tool_ok) ==
    IF /\ out_dir # None
       /\ out_dir[1].marker = Some(source.digest)
    THEN Effect(TRUE, cache_dir, out_dir, 0, 0, FALSE)
    ELSE extract_layers(replace(source.digest, ":", "-"), source.digest,
                        cache_dir, out_dir, tool_ok)

\* ------------------------------------------------------------------------
\* State.
\* ------------------------------------------------------------------------
VARIABLES
    manifest,       \* Twoliter.toml of the project directory
    releaseToml,    \* Release.toml of the project directory
    overrideFile,   \* Twoliter.override of the project directory
    lockfile,       \* Twoliter.lock: None or Some(text)
    tags,           \* the verification tags under the external-kits directory
    epoch,          \* the revision of the images the registries serve
    projects,       \* the bag of Project values the caller holds
    op,             \* the lock transition in flight
    last,           \* the operation that returned last, and what it returned
    queried,        \* history: every vendor query issued
    rProject,       \* resolver inputs: the project's vendor and override tables
    rImage,         \* resolver input: the image
    rOut,           \* what resolving rImage against rProject returned
    rPrev,          \* rOut before the last edit of the tables
    rEdit,          \* the last edit of the tables
    imageTool,      \* the image tool the last update ran with
    cacheDir,       \* the cache directory: the entries that exist and what they hold
    outDir,         \* the output directory of unpack_layers
    ociLast,        \* the call of the content engine that returned last
    idInput,        \* the names of a manifest as written in Twoliter.toml
    idOut,          \* what parsing and loading idInput returned
    findFs,         \* the directories from the root down and the starting path
    findCall,       \* the find_and_load call: where it looks and what it returned
    digSource,      \* an OCIArchiveSource value
    digFile,        \* the bytes of the archive file at the source's path
    digLog,         \* history of the digest() calls on digSource
    upCache,        \* per digest, what is wrong with its entry of the cache directory
    upOut,          \* the output directory: its digest file and the files in it
    upProc,         \* the unpack_layers calls: where each stands
    layerDir,       \* per path of the output directory, the layer its content is of
    layerCall,      \* the layer loop of one unpack_layers call
    pullCache,      \* per digest, its path of the cache directory and the pulls made
    pullProc,       \* the concurrent pull_image calls: where each stands
    pathIn,         \* two digests, as text
    pathOut,        \* the cache paths computed for them
    localDir,       \* the directory of a Local source: its entries by file name
    localOut        \* what get_manifest returned for it

identVars == <<idInput, idOut>>

findVars == <<findFs, findCall>>

digestVars == <<digSource, digFile, digLog>>

unpackVars == <<upCache, upOut, upProc>>

layerVars == <<layerDir, layerCall>>

pullVars == <<pullCache, pullProc>>

pathVars == <<pathIn, pathOut>>

localVars == <<localDir, localOut>>

lateVars == <<layerVars, pullVars, pathVars, localVars>>

extraVars == <<identVars, findVars, digestVars, unpackVars, lateVars>>

engineVars == <<imageTool, cacheDir, outDir, ociLast>>

cacheVars == <<cacheDir, outDir, ociLast, extraVars>>

ociVars == <<imageTool, cacheDir, outDir, ociLast, extraVars>>

NmText == <<110, 109>>

VnText == <<118>>

\* The names of a manifest: `value` is written at `slot`, "nm" and "v" elsewhere.
RawNames(slot, value) ==
    [sdk |-> [name |-> IF slot = "sdk_name" THEN value ELSE TomlString(NmText),
              vendor |-> IF slot \in {"vendor", "dependency_vendor"} THEN value
                         ELSE TomlString(VnText)],
     kit |-> [name |-> IF slot = "kit_name" THEN value ELSE TomlString(NmText),
              vendor |-> IF slot \in {"vendor", "dependency_vendor"} THEN value
                         ELSE TomlString(VnText)],
     vendor_key |-> IF slot \in {"vendor", "vendor_key"} THEN value
                    ELSE TomlString(VnText)]

Slots == {"sdk_name", "kit_name", "vendor", "dependency_vendor", "vendor_key"}

NotParsed == [ran |-> "none", parsed |-> Err, loaded |-> Err]

\* No identifier has been parsed.
IdentIdle ==
    /\ idInput = [slot |-> "sdk_name", value |-> TomlString(NmText)]
    /\ idOut = NotParsed

\* One invocation of find_and_load on the directory at depth call.dir (the root
\* is at depth 0): ensure is_dir, canonicalize, load Twoliter.toml when it is a
\* file there, else recurse on the parent.  load_ok is what Project::load returns.
FindCall(pc, dir, result, found) ==
    [pc |-> pc, dir |-> dir, result |-> result, found |-> found]

\* Variant: the parent of the root is the root.
find_and_load_root_is_its_parent(call, fs, load_ok) ==
    IF call.dir = fs.start.depth /\ fs.start.kind # "dir"
    THEN FindCall("done", call.dir, "not_a_directory", None)
    ELSE IF fs.toml[call.dir] = "file"
    THEN FindCall("done", call.dir, IF load_ok THEN "loaded" ELSE "load_failed",
                  Some(call.dir))
    ELSE IF call.dir = 0
    THEN FindCall("running", 0, "none", None)
    ELSE FindCall("running", call.dir - 1, "none", None)

find_and_load(call, fs, load_ok) ==
    IF call.dir = fs.start.depth /\ fs.start.kind # "dir"
    THEN FindCall("done", call.dir, "not_a_directory", None)
    ELSE IF fs.toml[call.dir] = "file"
    THEN FindCall("done", call.dir, IF load_ok THEN "loaded" ELSE "load_failed",
                  Some(call.dir))
    ELSE IF call.dir = 0
    THEN FindCall("done", 0, "no_parent", None)
    ELSE FindCall("running", call.dir - 1, "none", None)

\* find_and_load has not been called.
FindIdle ==
    /\ findFs = [toml |-> [d \in {0} |-> "none"], start |-> [kind |-> "dir", depth |-> 0]]
    /\ findCall = FindCall("idle", 0, "none", None)

\* OCIArchiveSource as OCIArchive::new and OCIArchive::open build it, and after
\* digest() has filled in the digest of a Local one.
SourceRemote(digest) == [kind |-> "Remote", digest |-> Some(digest)]

SourceLocal(digest) == [kind |-> "Local", digest |-> digest]

\* format!("sha256:{}", base16::encode_lower(hash)) of the bytes of a file
sha256_digest(bytes) == <<"sha256", ":", bytes>>

\* What digest() returns, the source it leaves and whether it read the file.
Digested(result, self, hashed) == [result |-> result, self |-> self, hashed |-> hashed]

\* Variant: the digest computed is returned but not kept.
source_digest_not_kept(self, bytes, hash_ok) ==
    IF self.digest # None THEN Digested(Ok(self.digest[1]), self, FALSE)
    ELSE IF ~hash_ok THEN Digested(Err, self, TRUE)
    ELSE Digested(Ok(sha256_digest(bytes)), self, TRUE)

\* OCIArchiveSource::digest.  hash_ok tells whether opening and reading the
\* file succeed.
source_digest(self, bytes, hash_ok) ==
    IF self.kind = "Remote" THEN Digested(Ok(self.digest[1]), self, FALSE)
    ELSE IF self.digest # None THEN Digested(Ok(self.digest[1]), self, FALSE)
    ELSE IF ~hash_ok THEN Digested(Err, self, TRUE)
    ELSE Digested(Ok(sha256_digest(bytes)), SourceLocal(Some(sha256_digest(bytes))), TRUE)

NoDigestCalls == [built |-> None, returned |-> <<>>, rehashed |-> FALSE]

\* Some call so far returned a digest.
Succeeded(log) == \E i \in DOMAIN log.returned : log.returned[i].ok

\* digest() has not been called.
DigestIdle ==
    /\ digSource = SourceLocal(None)
    /\ digFile = "aa"
    /\ digLog = NoDigestCalls

\* ------------------------------------------------------------------------
\* unpack_layers statement by statement (oci.rs 171-242, archive.rs 127-190).
\* An image has the layers 1..MaxLayers; layer l of the image with digest d
\* unpacks to the file <<hex of d, l>>.
\* ------------------------------------------------------------------------
Layers == 1..MaxLayers

Hex(digest) == digest[3]

LayerFiles(digest) == {<<Hex(digest), l>> : l \in Layers}

StaleFile == <<"stale", 0>>

\* What is wrong with a cache entry: nothing, or the first read of it that fails.
Intact == [fault |-> "none", layer |-> 0]

CacheFaults ==
    [fault : {"none", "index_missing", "index_undecodable", "index_empty",
              "manifest_missing", "manifest_undecodable"},
     layer : {0}]
    \cup [fault : {"layer_missing", "layer_unpack"}, layer : Layers]

Dir(exists, marker, files) == [exists |-> exists, marker |-> marker, files |-> files]

NoDir == Dir(FALSE, None, {})

Calls == {"oci", "archive"}

Proc(pc, call, digest, layer, result, hit) ==
    [pc |-> pc, call |-> call, digest |-> digest, layer |-> layer,
     result |-> result, hit |-> hit]

NotCalled == Proc("idle", "archive", <<"sha256", ":", "aa">>, 0, "none", FALSE)

Procs == {1, 2}

\* The value the call writes to the digest file: OCIArchive writes self.digest,
\* OCI the first manifest digest of index.json with ':' replaced by '/'.
marker_written(call, digest) ==
    IF call = "archive" THEN digest ELSE replace(digest, ":", "/")

Returned(p) == upProc[p].pc \in {"idle", "done", "failed", "abandoned"}

Goes(p, proc) == upProc' = [upProc EXCEPT ![p] = proc]

At(p, pc) == [upProc[p] EXCEPT !.pc = pc]

Fails(p, result) == [upProc[p] EXCEPT !.pc = "failed", !.result = result]

\* unpack_layers is called for an image.
UpCall(p) ==
    /\ Returned(p)
    /\ \E call \in Calls, digest \in Digests :
          Goes(p, Proc("check", call, digest, 0, "none", FALSE))
    /\ UNCHANGED <<upCache, upOut>>

\* The digest file is read and compared with self.digest.
UpCheck(p) ==
    /\ upProc[p].pc = "check"
    /\ IF upOut.exists /\ upOut.marker = Some(upProc[p].digest)
       THEN Goes(p, [upProc[p] EXCEPT !.pc = "done", !.result = "ok", !.hit = TRUE])
       ELSE Goes(p, At(p, "remove"))
    /\ UNCHANGED <<upCache, upOut>>

\* remove_dir_all(path): it fails on a directory that is not there; it removes
\* entry after entry and, when `interruptible`, may fail part of the way.
UpRemove(p, interruptible) ==
    /\ upProc[p].pc = "remove"
    /\ \/ /\ ~upOut.exists
          /\ Goes(p, Fails(p, "remove"))
          /\ UNCHANGED upOut
       \/ /\ upOut.exists
          /\ Goes(p, At(p, "create"))
          /\ upOut' = NoDir
       \/ /\ upOut.exists
          /\ interruptible
          /\ Goes(p, Fails(p, "remove"))
          /\ \E marker \in {upOut.marker, None}, files \in SUBSET upOut.files :
                upOut' = Dir(TRUE, marker, files)
    /\ UNCHANGED upCache

\* create_dir_all(path)
UpCreate(p) ==
    /\ upProc[p].pc = "create"
    /\ Goes(p, At(p, "index"))
    /\ upOut' = [upOut EXCEPT !.exists = TRUE]
    /\ UNCHANGED upCache

\* index.json is read and decoded and its first manifest is taken.
UpIndex(p) ==
    /\ upProc[p].pc = "index"
    /\ LET fault == upCache[upProc[p].digest].fault
       IN  IF fault \in {"index_missing", "index_undecodable", "index_empty"}
           THEN Goes(p, Fails(p, fault))
           ELSE Goes(p, At(p, "manifest"))
    /\ UNCHANGED <<upCache, upOut>>

\* The manifest blob is read and decoded.
UpManifest(p) ==
    /\ upProc[p].pc = "manifest"
    /\ LET fault == upCache[upProc[p].digest].fault
       IN  IF fault \in {"manifest_missing", "manifest_undecodable"}
           THEN Goes(p, Fails(p, fault))
           ELSE Goes(p, [upProc[p] EXCEPT !.pc = "layers", !.layer = 1])
    /\ UNCHANGED <<upCache, upOut>>

\* The next layer is opened and unpacked into the directory, which the unpack
\* creates when it is not there; after the last layer the marker is due.
UpLayer(p) ==
    /\ upProc[p].pc = "layers"
    /\ LET entry == upCache[upProc[p].digest]
           l == upProc[p].layer
       IN  IF entry.fault \in {"layer_missing", "layer_unpack"} /\ entry.layer = l
           THEN /\ Goes(p, Fails(p, entry.fault))
                /\ UNCHANGED upOut
           ELSE /\ upOut' = [upOut EXCEPT !.exists = TRUE,
                                          !.files = @ \cup {<<Hex(upProc[p].digest), l>>}]
                /\ IF l = MaxLayers
                   THEN Goes(p, At(p, "marker"))
                   ELSE Goes(p, [upProc[p] EXCEPT !.layer = l + 1])
    /\ UNCHANGED upCache

\* The digest file is written.
UpMarker(p) ==
    /\ upProc[p].pc = "marker"
    /\ IF upOut.exists
       THEN /\ upOut' = [upOut EXCEPT !.marker =
                             Some(marker_written(upProc[p].call, upProc[p].digest))]
            /\ Goes(p, [upProc[p] EXCEPT !.pc = "done", !.result = "ok"])
       ELSE /\ Goes(p, Fails(p, "marker"))
            /\ UNCHANGED upOut
    /\ UNCHANGED upCache

\* The call is cancelled or the process dies where it stands.
UpAbandon(p) ==
    /\ ~Returned(p)
    /\ Goes(p, [upProc[p] EXCEPT !.pc = "abandoned", !.result = "none"])
    /\ UNCHANGED <<upCache, upOut>>

\* unpack_layers has not been called.
UnpackIdle ==
    /\ upCache = [d \in Digests |-> Intact]
    /\ upOut = NoDir
    /\ upProc = [p \in Procs |-> NotCalled]

\* One caller, whose calls may fail or be abandoned at any statement, on a
\* cache in which the entry of one image may be damaged.
UnpackInit ==
    /\ upCache \in {[d \in Digests |-> IF Hex(d) = "aa" THEN f ELSE Intact] :
                        f \in CacheFaults}
    /\ upOut \in {NoDir, Dir(TRUE, None, {}), Dir(TRUE, None, {StaleFile})}
    /\ upProc = [p \in Procs |-> NotCalled]

\* Two callers on the same output directory, an intact cache and no failures.
UnpackConcInit ==
    /\ upCache = [d \in Digests |-> Intact]
    /\ upOut \in {Dir(TRUE, None, {}), Dir(TRUE, None, {StaleFile})}
    /\ upProc = [p \in Procs |-> NotCalled]

\* ------------------------------------------------------------------------
\* The layer loop of unpack_layers (oci.rs 226-234, archive.rs 172-180): the
\* manifest lists layer blobs, each a tar archive with entries for some paths.
\* ------------------------------------------------------------------------
Blobs == 1..MaxBlobs

Paths == {"etc/os-release", "usr/bin/tool"}

Absent == 0

RECURSIVE LayerLists(_)
\* The lists of at most n distinct layer blobs, in any order.
LayerLists(n) ==
    IF n = 0 THEN {<<>>}
    ELSE LET shorter == LayerLists(n - 1)
         IN  shorter \cup {Append(l, b) : l \in {x \in shorter : Len(x) = n - 1},
                                          b \in Blobs}

ManifestLayers == {l \in LayerLists(MaxBlobs) :
                     Len(l) >= 1 /\ \A i, j \in 1..Len(l) : l[i] = l[j] => i = j}

\* TarArchive::unpack(path): every entry of the archive is written to its path,
\* over what is there.
tar_unpack(dir, blob, entries) ==
    [p \in Paths |-> IF p \in entries[blob] THEN blob ELSE dir[p]]

\* Mutant: the layers are taken last first.
layer_at_reversed(layers, k) == layers[Len(layers) + 1 - k]

\* `for layer in manifest_layout.layers`: the k-th layer the loop takes.
layer_at(layers, k) == layers[k]

LayerCall(pc, layers, entries, k) ==
    [pc |-> pc, layers |-> layers, entries |-> entries, k |-> k]

LayerIdle ==
    /\ layerDir = [p \in Paths |-> Absent]
    /\ layerCall = LayerCall("idle", <<1>>, [b \in Blobs |-> {}], 0)

\* The directory has just been recreated; the manifest has been read.
LayerInit ==
    /\ layerDir = [p \in Paths |-> Absent]
    /\ \E layers \in ManifestLayers, entries \in [Blobs -> SUBSET Paths] :
          layerCall = LayerCall("loop", layers, entries, 0)

\* One iteration of the loop: the next layer is opened and unpacked.
UnpackNextLayer ==
    /\ layerCall.pc = "loop"
    /\ layerCall.k < Len(layerCall.layers)
    /\ layerDir' = tar_unpack(layerDir, layer_at(layerCall.layers, layerCall.k + 1),
                              layerCall.entries)
    /\ layerCall' = [layerCall EXCEPT !.k = @ + 1]

\* The loop ends after the last layer.
LayersDone ==
    /\ layerCall.pc = "loop"
    /\ layerCall.k = Len(layerCall.layers)
    /\ layerCall' = [layerCall EXCEPT !.pc = "done"]
    /\ UNCHANGED layerDir

\* ------------------------------------------------------------------------
\* pull_image of a Remote source statement by statement (oci.rs 130-149,
\* archive.rs 55-68), for callers that share the cache directory.
\* ------------------------------------------------------------------------
CachePath(state, pulls) == [state |-> state, pulls |-> pulls]

Pull(pc, digest, hit) == [pc |-> pc, digest |-> digest, hit |-> hit]

NoPull == Pull("idle", <<"sha256", ":", "aa">>, FALSE)

PullIdle ==
    /\ pullCache = [d \in Digests |-> CachePath("absent", 0)]
    /\ pullProc = [p \in Procs |-> NoPull]

PullInit == PullIdle

PullGoes(p, pull) == pullProc' = [pullProc EXCEPT ![p] = pull]

\* pull_image is called; the manifest entry of the architecture is found and
\* the cache path is computed from its digest.
PullCall(p) ==
    /\ pullProc[p].pc \in {"idle", "done"}
    /\ \E digest \in Digests : PullGoes(p, Pull("exists", digest, FALSE))
    /\ UNCHANGED pullCache

\* `if !oci_archive_path.exists()`: an existing path ends the call with Ok.
PullExists(p) ==
    /\ pullProc[p].pc = "exists"
    /\ IF pullCache[pullProc[p].digest].state = "absent"
       THEN PullGoes(p, [pullProc[p] EXCEPT !.pc = "create"])
       ELSE PullGoes(p, [pullProc[p] EXCEPT !.pc = "done", !.hit = TRUE])
    /\ UNCHANGED pullCache

\* create_dir_all(&oci_archive_path): the path is made, empty, when it is not
\* there; an existing directory is left as it is.
PullCreate(p) ==
    /\ pullProc[p].pc = "create"
    /\ PullGoes(p, [pullProc[p] EXCEPT !.pc = "pull"])
    /\ pullCache' = [pullCache EXCEPT ![pullProc[p].digest].state =
                         IF @ = "absent" THEN "empty" ELSE @]

\* image_tool.pull_oci_image(&oci_archive_path, digest_uri): the tool fetches
\* the image into the path.
PullOciImage(p) ==
    /\ pullProc[p].pc = "pull"
    /\ pullCache[pullProc[p].digest].pulls < MaxPulls
    /\ PullGoes(p, [pullProc[p] EXCEPT !.pc = "done"])
    /\ pullCache' = [pullCache EXCEPT ![pullProc[p].digest] =
                         CachePath("complete", @.pulls + 1)]

\* ------------------------------------------------------------------------
\* The cache path of a digest (oci.rs 130, archive.rs 112-114). A digest is a
\* text, character by character: an algorithm name, ':' and hex digits.
\* ------------------------------------------------------------------------
AlgChars == {"s", "a"}

HexChars == {"a", "2"}

Texts(chars, n) == UNION {[1..k -> chars] : k \in 1..n}

DigestTexts == {alg \o <<":">> \o hex : alg \in Texts(AlgChars, MaxPart),
                                         hex \in Texts(HexChars, MaxPart)}

CacheDirPath == <<"cache">>

\* Mutant: the ':' is dropped from the name.
cache_name_without_colon(digest) == SelectSeq(digest, LAMBDA c : c # ":")

\* digest.replace(':', "-")
cache_name(digest) == replace(digest, ":", "-")

\* cache_dir.join(name), for a name of one component
join(dir, name) == Append(dir, name)

oci_archive_path(cache_dir, digest) == join(cache_dir, cache_name(digest))

PathIdle ==
    /\ pathIn = <<<<"s", ":", "a">>, <<"s", ":", "a">>>>
    /\ pathOut = None

PathInit ==
    /\ pathIn \in DigestTexts \X DigestTexts
    /\ pathOut = None

\* The cache paths of the two digests are computed.
CachePaths ==
    /\ pathOut = None
    /\ pathOut' = Some(<<oci_archive_path(CacheDirPath, pathIn[1]),
                         oci_archive_path(CacheDirPath, pathIn[2])>>)
    /\ UNCHANGED pathIn

\* ------------------------------------------------------------------------
\* get_manifest of a Local source (oci.rs 53-83, 95-111). A file name is a
\* stem followed by an ending; the name is the text of the two together.
\* ------------------------------------------------------------------------
Stems == {"", "kit"}

Endings == {"-x86_64.tar", "-aarch64.tar", ".txt"}

FileNames == [stem : Stems, ending : Endings]

ArchEnding(arch) == IF arch = "amd64" THEN "-x86_64.tar" ELSE "-aarch64.tar"

DirEntries == [kind : {"file"}, bytes : Hexes] \cup [kind : {"dir"}, bytes : {""}]

LocalDirs ==
    UNION {[S -> DirEntries] : S \in {T \in SUBSET FileNames : Cardinality(T) <= MaxEntries}}

\* Path::ends_with(child) for a child of one component: the last component of
\* the path, the file name, is the child; a name that merely ends with the
\* text of the child does not match.
path_ends_with(name, child) == name.stem = "" /\ name.ending = child

\* The entries get_local_archives keeps for an architecture.
archive_entries(dir, arch) ==
    {n \in DOMAIN dir : dir[n].kind = "file" /\ path_ends_with(n, ArchEnding(arch))}

\* get_local_archives: the map from architecture to archive path; of several
\* entries of one architecture the one read_dir yields last is kept.
get_local_archives(dir) ==
    LET found == {a \in Archs : archive_entries(dir, a) # {}}
    IN  {archives \in [found -> FileNames] :
            \A a \in found : archives[a] \in archive_entries(dir, a)}

\* digest_for_archive: "sha256:" and the lower-case hex of the hash of the bytes
digest_for_archive(dir, name) == sha256_digest(dir[name].bytes)

\* get_manifest of a Local source over the archives found, the HashMap
\* yielding the architectures in `order`.
get_manifest_local(dir, archives, order) ==
    IF DOMAIN archives = {} THEN Err
    ELSE Ok([manifests |->
                [i \in DOMAIN order |->
                    [digest |-> digest_for_archive(dir, archives[order[i]]),
                     platform |-> Some(order[i])]]])

Orders(S) == {o \in UNION {[1..n -> S] : n \in 0..Cardinality(Archs)} :
                 /\ Len(o) = Cardinality(S)
                 /\ \A i, j \in 1..Len(o) : o[i] = o[j] => i = j}

NoManifest == [ran |-> FALSE, result |-> Err]

LocalIdle ==
    /\ localDir = << >>
    /\ localOut = NoManifest

LocalInit ==
    /\ localDir \in LocalDirs
    /\ localOut = NoManifest

\* get_manifest is called on the Local source.
GetManifestLocal ==
    /\ ~localOut.ran
    /\ \E archives \in get_local_archives(localDir) :
          \E order \in Orders(DOMAIN archives) :
             localOut' = [ran |-> TRUE,
                          result |-> get_manifest_local(localDir, archives, order)]
    /\ UNCHANGED localDir

LateIdle == LayerIdle /\ PullIdle /\ PathIdle /\ LocalIdle

ExtraIdle == IdentIdle /\ FindIdle /\ DigestIdle /\ UnpackIdle /\ LateIdle

NoCall ==
    [name |-> "none", self |-> None, arch |-> None, manifest |-> None,
     ok |-> FALSE, pulls |-> 0, unpacks |-> 0, removed |-> FALSE, hit |-> FALSE]

\* The content engine has not been called.
OciCacheIdle ==
    /\ cacheDir = <<>>
    /\ outDir = None
    /\ ociLast = NoCall

\* Neither the content engine nor any of the helpers has been called.
CacheIdle == OciCacheIdle /\ ExtraIdle

\* No image tool command has run.
OciIdle == imageTool = "docker" /\ CacheIdle

diskVars == <<manifest, releaseToml, overrideFile, lockfile, tags, epoch>>

machineVars == <<manifest, releaseToml, overrideFile, lockfile, tags, epoch,
                 projects, op, last, queried>>

resolverVars == <<rProject, rImage, rOut, rPrev, rEdit>>

vars == <<manifest, releaseToml, overrideFile, lockfile, tags, epoch,
          projects, op, last, queried,
          rProject, rImage, rOut, rPrev, rEdit,
          imageTool, cacheDir, outDir, ociLast,
          idInput, idOut, findFs, findCall,
          digSource, digFile, digLog,
          upCache, upOut, upProc,
          layerDir, layerCall,
          pullCache, pullProc,
          pathIn, pathOut,
          localDir, localOut>>

Idle == [name |-> "idle", target |-> "Unlocked", self |-> None]

Last(name, result, self, value) ==
    [name |-> name, result |-> result, self |-> self, value |-> value]

NothingYet == Last("none", "-", None, None)

Phase(project) == project.lock.phase

\* Every image the project declares names a vendor of its vendor table.
VendorsKnown(project) ==
    \A i \in DOMAIN images_to_lock(project) :
        images_to_lock(project)[i].vendor \in DOMAIN project.vendor

\* The Unlocked values the caller holds.
HeldUnlocked == {h \in BagToSet(projects) : Phase(h.value) = "Unlocked"}

\* ------------------------------------------------------------------------
\* The resolver on its own: inputs drawn at Init, then resolved, edited and
\* resolved again.
\* ------------------------------------------------------------------------
NotResolved == [ran |-> FALSE, vendor |-> None, image |-> Err,
                project_uri |-> None, original_uri |-> None]

ResolverIdle ==
    /\ rProject = [vendor |-> <<>>, overrides |-> NoOverrides]
    /\ rImage = [name |-> "bottlerocket-sdk", version |-> 1, vendor |-> "bottlerocket"]
    /\ rOut = NotResolved
    /\ rPrev = NotResolved
    /\ rEdit = "none"

ResolverInit ==
    /\ rProject \in [vendor : VendorTables, overrides : OverrideTables]
    /\ rImage \in Image
    /\ rOut = NotResolved
    /\ rPrev = NotResolved
    /\ rEdit = "none"

\* vendor_for, as_project_image and both URIs of the resolved image.
Resolve ==
    /\ ~rOut.ran
    /\ LET pi == as_project_image(rProject, rImage)
       IN  rOut' = [ran |-> TRUE,
                    vendor |-> vendor_for(rProject, rImage),
                    image |-> pi,
                    project_uri |-> IF pi.ok THEN Some(project_image_uri(pi.value[1]))
                                    ELSE None,
                    original_uri |-> IF pi.ok THEN Some(original_source_uri(pi.value[1]))
                                     ELSE None]
    /\ UNCHANGED <<rProject, rImage, rPrev, rEdit>>

OverrideEntry(project, image) ==
    IF /\ image.vendor \in DOMAIN project.overrides
       /\ image.name \in DOMAIN project.overrides[image.vendor]
    THEN Some(project.overrides[image.vendor][image.name])
    ELSE None

\* The flat form of an override table.
FlatOverrides(nested) ==
    [k \in {<<v, n>> \in VendorNames \X ImageNames :
                v \in DOMAIN nested /\ n \in DOMAIN nested[v]} |-> nested[k[1]][k[2]]]

\* The vendor of the image is taken out of the vendor table.
RemoveVendorEntry ==
    /\ rOut.ran /\ rEdit = "none"
    /\ rImage.vendor \in DOMAIN rProject.vendor
    /\ rProject' = [rProject EXCEPT
                       !.vendor = [v \in DOMAIN rProject.vendor \ {rImage.vendor} |->
                                      rProject.vendor[v]]]
    /\ rPrev' = rOut
    /\ rOut' = NotResolved
    /\ rEdit' = "vendor_removed"
    /\ UNCHANGED rImage

\* An override for the image is added or replaced.
SetOverride ==
    /\ rOut.ran /\ rEdit = "none"
    /\ \E o \in Override :
          /\ OverrideEntry(rProject, rImage) # Some(o)
          /\ rProject' = [rProject EXCEPT
                !.overrides =
                    NestedOverrides([k \in DOMAIN FlatOverrides(rProject.overrides)
                                            \cup {<<rImage.vendor, rImage.name>>} |->
                                        IF k = <<rImage.vendor, rImage.name>> THEN o
                                        ELSE FlatOverrides(rProject.overrides)[k]])]
    /\ rPrev' = rOut
    /\ rOut' = NotResolved
    /\ rEdit' = "override_set"
    /\ UNCHANGED rImage

\* The override for the image is removed.
RemoveOverride ==
    /\ rOut.ran /\ rEdit = "none"
    /\ OverrideEntry(rProject, rImage) # None
    /\ rProject' = [rProject EXCEPT
          !.overrides =
              NestedOverrides([k \in DOMAIN FlatOverrides(rProject.overrides)
                                      \ {<<rImage.vendor, rImage.name>>} |->
                                  FlatOverrides(rProject.overrides)[k]])]
    /\ rPrev' = rOut
    /\ rOut' = NotResolved
    /\ rEdit' = "override_removed"
    /\ UNCHANGED rImage

\* ------------------------------------------------------------------------
\* The project machine: load, drop, load_lock, create_lock, and the registry.
\* ------------------------------------------------------------------------
MachineIdle ==
    /\ manifest = [schema_version |-> SUPPORTED_TWOLITER_PROJECT_SCHEMA_VERSION,
                   release_version |-> "1.0.0", sdk |-> None, vendor |-> None,
                   kit |-> None]
    /\ releaseToml = NoReleaseToml
    /\ overrideFile = NoOverrideFile
    /\ lockfile = None
    /\ tags = NoTags
    /\ epoch = 1
    /\ projects = EmptyBag
    /\ op = Idle
    /\ last = NothingYet
    /\ queried = {}

MachineInit ==
    /\ manifest \in Manifests({SUPPORTED_TWOLITER_PROJECT_SCHEMA_VERSION})
    /\ releaseToml = NoReleaseToml
    /\ overrideFile = OverrideFile("table", KitRegistryOverride)
    /\ lockfile = None
    /\ tags = NoTags
    /\ epoch = 1
    /\ projects = EmptyBag
    /\ op = Idle
    /\ last = NothingYet
    /\ queried = {}

\* Project::load; the caller keeps the project it returns.
Load ==
    /\ op = Idle
    /\ BagCardinality(projects) < MaxHeld
    /\ LET project == load(ProjectPath, manifest, releaseToml, overrideFile)
       IN  /\ tags' = IF project.ok THEN cleanup_existing_tags(tags) ELSE tags
           /\ projects' = IF project.ok
                          THEN projects (+) SetToBag({Held(project.value[1], None)})
                          ELSE projects
           /\ last' = Last("load", IF project.ok THEN "ok" ELSE "err", None,
                           project.value)
    /\ UNCHANGED <<manifest, releaseToml, overrideFile, lockfile, epoch, op, queried>>

\* The caller lets go of a value.
Drop ==
    /\ op = Idle
    /\ \E h \in BagToSet(projects) : projects' = projects (-) SetToBag({h})
    /\ last' = Last("drop", "-", None, None)
    /\ UNCHANGED <<diskVars, op, queried>>

\* The registries serve a new revision of the images.
Republish ==
    /\ epoch < MaxEpoch
    /\ epoch' = epoch + 1
    /\ UNCHANGED <<manifest, releaseToml, overrideFile, lockfile, tags,
                   projects, op, last, queried>>

\* load_lock::<NL>(&self): the tags are cleaned up, then NL::load_lock starts.
LoadLockBegin ==
    /\ op = Idle
    /\ BagCardinality(projects) < MaxHeld
    /\ \E h \in HeldUnlocked, NL \in Phases :
          op' = [name |-> "load_lock", target |-> NL, self |-> Some(h.value)]
    /\ tags' = cleanup_existing_tags(tags)
    /\ UNCHANGED <<manifest, releaseToml, overrideFile, lockfile, epoch,
                   projects, last, queried>>

\* NL::load_lock returns; on success the tags are written and the new project
\* is returned.
LoadLockResolve ==
    /\ op.name = "load_lock"
    /\ LET self == op.self[1]
           resolved_lock == NL_load_lock(op.target, self, lockfile)
           project == load_lock(self, resolved_lock)
       IN  /\ tags' = IF resolved_lock.ok
                      THEN write_tags(verification_tagger(resolved_lock.value[1]), tags)
                      ELSE tags
           /\ projects' = IF project.ok
                          THEN returned(projects, self,
                                        Held(project.value[1], resolved_lock.value))
                          ELSE projects
           /\ last' = Last("load_lock", IF project.ok THEN "ok" ELSE "err",
                           op.self, project.value)
    /\ op' = Idle
    /\ UNCHANGED <<manifest, releaseToml, overrideFile, lockfile, epoch, queried>>

\* create_lock(self): the value moves into the call, then Lock::create starts.
CreateLockBegin ==
    /\ op = Idle
    /\ \E h \in HeldUnlocked :
          /\ op' = [name |-> "create_lock", target |-> "Locked", self |-> Some(h.value)]
          /\ projects' = projects (-) SetToBag({h})
    /\ UNCHANGED <<diskVars, last, queried>>

\* Lock::create returns: the vendors were queried up to the first failure; on
\* success the lockfile is written and the Locked project is returned.
CreateLockResolve ==
    /\ op.name = "create_lock"
    /\ \E fail_at \in 0..Len(images_to_lock(op.self[1])), image_tool \in ImageTools :
          LET self == op.self[1]
              lock == Lock_create(self, image_tool, epoch, fail_at)
              project == create_lock(self, lock)
          IN  /\ queried' = queried \cup
                    {[uri |-> u, vendors_known |-> VendorsKnown(self)] :
                        u \in create_queries(self, fail_at)}
              /\ lockfile' = IF lock.ok THEN Some(to_toml(lock.value[1])) ELSE lockfile
              /\ projects' = IF project.ok
                             THEN returned(projects, self,
                                           Held(project.value[1],
                                                IF lock.ok THEN Some(Locked(lock.value[1]))
                                                ELSE None))
                             ELSE projects
              /\ last' = Last("create_lock", IF project.ok THEN "ok" ELSE "err",
                              op.self, project.value)
    /\ op' = Idle
    /\ UNCHANGED <<manifest, releaseToml, overrideFile, tags, epoch>>

\* ------------------------------------------------------------------------
\* The lock store across manifest edits: `twoliter update` (load, create_lock),
\* a command that loads the lock (load, load_lock::<NL>), and an editor that
\* changes Twoliter.toml in between.
\* ------------------------------------------------------------------------
FullVendorTable == [v \in VendorNames |-> [registry |-> StdRegistry(v)]]

\* The versions a lock store sees declared: the lowest and the highest.
LockVersions == {1, MaxVersion}

LockSdkImages ==
    [name : {"bottlerocket-sdk"}, version : LockVersions, vendor : {"bottlerocket"}]

LockKitImages == [name : {"extra-3-kit"}, version : LockVersions, vendor : VendorNames]

LockKitLists == UNION {[1..n -> LockKitImages] : n \in 0..MaxKits}

LockManifests ==
    [schema_version : {SUPPORTED_TWOLITER_PROJECT_SCHEMA_VERSION},
     release_version : {"1.0.0"},
     sdk : {Some(i) : i \in LockSdkImages},
     vendor : {Some(FullVendorTable)},
     kit : {Some(k) : k \in LockKitLists}]

LockInit ==
    /\ manifest \in LockManifests
    /\ releaseToml = NoReleaseToml
    /\ overrideFile = OverrideFile("table", KitRegistryOverride)
    /\ lockfile = None
    /\ tags = NoTags
    /\ epoch = 1
    /\ projects = EmptyBag
    /\ op = Idle
    /\ last = NothingYet
    /\ queried = {}

\* Twoliter.toml is edited: a version or a vendor changes, a kit is added or the
\* last kit is removed.  The values of the previous command are gone.
EditManifest ==
    /\ \E m \in LockManifests :
          LET old == manifest.kit[1]
              new == m.kit[1]
          IN  /\ m # manifest
              /\ \/ /\ new = old
                    /\ m.sdk # manifest.sdk
                 \/ /\ m.sdk = manifest.sdk
                    /\ Len(new) = Len(old)
                    /\ Cardinality({i \in DOMAIN old : new[i] # old[i]}) = 1
                 \/ /\ m.sdk = manifest.sdk
                    /\ Len(new) = Len(old) + 1
                    /\ SubSeq(new, 1, Len(old)) = old
                 \/ /\ m.sdk = manifest.sdk
                    /\ Len(old) = Len(new) + 1
                    /\ SubSeq(old, 1, Len(new)) = new
              /\ manifest' = m
    /\ projects' = EmptyBag
    /\ last' = Last("edit", "-", None, None)
    /\ UNCHANGED <<releaseToml, overrideFile, lockfile, tags, epoch, op, queried,
                   imageTool>>

\* `twoliter update`: Project::load, then create_lock on the loaded project.
UpdateCommand ==
    /\ LET loaded == load(ProjectPath, manifest, releaseToml, overrideFile)
       IN  /\ loaded.ok
           /\ \E fail_at \in 0..Len(images_to_lock(loaded.value[1])),
                 image_tool \in ImageTools :
                 LET self == loaded.value[1]
                     lock == Lock_create(self, image_tool, epoch, fail_at)
                     project == create_lock(self, lock)
                 IN  /\ lockfile' = IF lock.ok THEN Some(to_toml(lock.value[1]))
                                     ELSE lockfile
                     /\ tags' = cleanup_existing_tags(tags)
                     /\ projects' = IF project.ok
                                     THEN SetToBag({Held(project.value[1],
                                                         Some(Locked(lock.value[1])))})
                                     ELSE EmptyBag
                     /\ last' = Last("update", IF project.ok THEN "ok" ELSE "err",
                                     Some(self), project.value)
                     /\ imageTool' = image_tool
    /\ UNCHANGED <<manifest, releaseToml, overrideFile, epoch, op, queried>>

\* A command that needs the lock: Project::load, then load_lock::<NL> on the
\* loaded project.
LoadLockCommand ==
    /\ LET loaded == load(ProjectPath, manifest, releaseToml, overrideFile)
       IN  /\ loaded.ok
           /\ \E NL \in {"SDKLocked", "Locked"} :
                 LET self == loaded.value[1]
                     resolved_lock == NL_load_lock(NL, self, lockfile)
                     project == load_lock(self, resolved_lock)
                 IN  /\ tags' = IF resolved_lock.ok
                                 THEN write_tags(verification_tagger(resolved_lock.value[1]),
                                                 cleanup_existing_tags(tags))
                                 ELSE cleanup_existing_tags(tags)
                     /\ projects' = IF project.ok
                                     THEN SetToBag({Held(self, None),
                                                    Held(project.value[1],
                                                         resolved_lock.value)})
                                     ELSE SetToBag({Held(self, None)})
                     /\ last' = Last(IF NL = "Locked" THEN "load_locked"
                                     ELSE "load_sdk_locked",
                                     IF project.ok THEN "ok" ELSE "err",
                                     Some(self), project.value)
    /\ UNCHANGED <<manifest, releaseToml, overrideFile, lockfile, epoch, op, queried,
                   imageTool>>

\* ------------------------------------------------------------------------
\* Identifiers: a value written in Twoliter.toml is parsed and loaded.
\* ------------------------------------------------------------------------
RawValues == {TomlString(t) : t \in Strings} \cup {TomlInteger}

IdentInit ==
    /\ idInput \in [slot : Slots, value : RawValues]
    /\ idOut = NotParsed

\* The value is parsed as an identifier.
ParseIdentifier ==
    /\ idOut' = [ran |-> "parse", parsed |-> ValidIdentifier_deserialize(idInput.value),
                 loaded |-> Err]
    /\ UNCHANGED idInput

\* A manifest with the value at its slot is loaded.
LoadNames ==
    /\ idOut' = [ran |-> "load", parsed |-> Err,
                 loaded |-> load_names(RawNames(idInput.slot, idInput.value))]
    /\ UNCHANGED idInput

\* ------------------------------------------------------------------------
\* find_and_load over a chain of directories.
\* ------------------------------------------------------------------------
\* What is at Twoliter.toml in each directory from the root (depth 0) down to
\* depth n, and the path find_and_load is given: a directory, a file or nothing
\* in the directory at `depth`.
FileSystems ==
    UNION {[toml : [0..n -> {"none", "file", "dir"}],
            start : [kind : {"dir", "file", "missing"}, depth : {n}]] : n \in 0..MaxDepth}

FindInit ==
    /\ findFs \in FileSystems
    /\ findCall = FindCall("idle", 0, "none", None)

\* find_and_load(dir) is called.
FindAndLoad ==
    /\ findCall.pc = "idle"
    /\ findCall' = FindCall("running", findFs.start.depth, "none", None)
    /\ UNCHANGED findFs

\* The invocation in flight runs: it returns, or recurses on the parent.
FindStep ==
    /\ findCall.pc = "running"
    /\ \E load_ok \in BOOLEAN : findCall' = find_and_load(findCall, findFs, load_ok)
    /\ UNCHANGED findFs

\* ------------------------------------------------------------------------
\* digest() on one archive source while the archive file changes.
\* ------------------------------------------------------------------------
FileBytes == Hexes \cup {"cc"}

DigestInit ==
    /\ digSource \in {SourceLocal(None)} \cup {SourceRemote(d) : d \in Digests}
    /\ digFile \in FileBytes
    /\ digLog = [NoDigestCalls EXCEPT !.built = digSource.digest]

\* digest() is called on the source.
DigestCall ==
    /\ Len(digLog.returned) < MaxCalls
    /\ \E hash_ok \in BOOLEAN :
          LET d == source_digest(digSource, digFile, hash_ok)
          IN  /\ digSource' = d.self
              /\ digLog' = [built |-> digLog.built,
                            returned |-> Append(digLog.returned, d.result),
                            rehashed |-> digLog.rehashed
                                         \/ (Succeeded(digLog) /\ d.hashed)]
    /\ UNCHANGED digFile

\* The archive file is rewritten.
RewriteArchive ==
    /\ \E b \in FileBytes : b # digFile /\ digFile' = b
    /\ UNCHANGED <<digSource, digLog>>

\* ------------------------------------------------------------------------
\* Project::load over the files a project directory can hold.
\* ------------------------------------------------------------------------
SchemaVersions ==
    {SUPPORTED_TWOLITER_PROJECT_SCHEMA_VERSION, SUPPORTED_TWOLITER_PROJECT_SCHEMA_VERSION + 1}

LoadManifests == Manifests(SchemaVersions)

OverrideFiles ==
    {NoOverrideFile, OverrideFile("unparsable", NoOverrides),
     OverrideFile("table", KitRegistryOverride)}

\* The tags an earlier load_lock left for the SDK and the kit.
TagsOfEarlierLock ==
    [k \in {<<"bottlerocket", "bottlerocket-sdk">>, <<"primary", "extra-3-kit">>} |->
        DefaultLockedImage.digest]

LoadInit ==
    /\ manifest \in LoadManifests
    /\ releaseToml \in ReleaseTomls
    /\ overrideFile \in OverrideFiles
    /\ lockfile = None
    /\ tags \in {NoTags, TagsOfEarlierLock}
    /\ epoch = 1
    /\ projects = EmptyBag
    /\ op = Idle
    /\ last = NothingYet
    /\ queried = {}

\* A command calls Project::load on Twoliter.toml.
LoadCommand ==
    /\ \E read_ok \in BOOLEAN, cleanup_left \in SUBSET DOMAIN tags :
          LET loaded == Project_load(ProjectPath, read_ok, manifest, releaseToml,
                                     overrideFile, tags, cleanup_left)
          IN  /\ tags' = loaded.tags
              /\ projects' = IF loaded.result.ok
                              THEN SetToBag({Held(loaded.result.value[1], None)})
                              ELSE EmptyBag
              /\ last' = Last("load", IF loaded.result.ok THEN "ok" ELSE "err", None,
                              loaded.result.value)
    /\ UNCHANGED <<manifest, releaseToml, overrideFile, lockfile, epoch, op, queried,
                   imageTool>>

\* Release.toml is written, changed or removed.
EditReleaseToml ==
    /\ \E r \in ReleaseTomls : r # releaseToml /\ releaseToml' = r
    /\ projects' = EmptyBag
    /\ last' = Last("edit", "-", None, None)
    /\ UNCHANGED <<manifest, overrideFile, lockfile, tags, epoch, op, queried, imageTool>>

\* Twoliter.override is written, changed or removed.
EditOverrideFile ==
    /\ \E o \in OverrideFiles : o # overrideFile /\ overrideFile' = o
    /\ projects' = EmptyBag
    /\ last' = Last("edit", "-", None, None)
    /\ UNCHANGED <<manifest, releaseToml, lockfile, tags, epoch, op, queried, imageTool>>

\* ------------------------------------------------------------------------
\* The content engine over one cache directory and one output directory.
\* ------------------------------------------------------------------------
OciImageUri == [registry |-> Some("a.com/b"), repo |-> "extra-3-kit", tag |-> <<"v", 1>>]

OciSources == {Remote(OciImageUri)} \cup {Local(a) : a \in LocalArchives \ {<<>>}}

ArchiveSources == {ArchiveRemote(d) : d \in Digests} \cup {ArchiveLocal(d) : d \in Digests}

\* The manifest lists get_manifest can hand to the caller of `self`: what the
\* registry serves for a Remote image; for a Local one an entry per archive
\* found, in the order the map of archives is iterated.
manifests_of(self) ==
    IF self.kind = "Remote" THEN ManifestListView
    ELSE LET archives == self.path[1]
             n == Cardinality(DOMAIN archives)
         IN  {[manifests |-> [i \in 1..n |->
                                 [digest |-> archives[order[i]],
                                  platform |-> Some(order[i])]]] :
                 order \in {f \in [1..n -> DOMAIN archives] :
                               \A i, j \in 1..n : f[i] = f[j] => i = j}}

Call(name, self, arch, manifest_list, effect, hit) ==
    [name |-> name, self |-> Some(self), arch |-> arch, manifest |-> manifest_list,
     ok |-> effect.ok, pulls |-> effect.pulls, unpacks |-> effect.unpacks,
     removed |-> effect.removed, hit |-> hit]

CacheInit ==
    /\ cacheDir = <<>>
    /\ outDir \in {None, OutDir(None, EmptyDir)}
    /\ ociLast = NoCall

\* The cache entry the call is about existed when the call began.
Hit(manifest_list, arch) ==
    /\ target_digest(manifest_list, arch) # None
    /\ replace(target_digest(manifest_list, arch)[1], ":", "-") \in DOMAIN cacheDir

OciPullImage ==
    \E self \in OciSources, arch \in Archs, tool_ok \in BOOLEAN :
       \E manifest_list \in manifests_of(self) :
          LET effect == oci_pull_image(self, arch, manifest_list, cacheDir, outDir, tool_ok)
          IN  /\ cacheDir' = effect.cache_dir
              /\ outDir' = effect.out_dir
              /\ ociLast' = Call("pull_image", self, Some(arch), Some(manifest_list), effect,
                                 Hit(manifest_list, arch))
              /\ UNCHANGED imageTool

OciUnpackLayers ==
    \E self \in OciSources, arch \in Archs, tool_ok \in BOOLEAN :
       \E manifest_list \in manifests_of(self) :
          LET effect == oci_unpack_layers(self, arch, manifest_list, cacheDir, outDir, tool_ok)
          IN  /\ cacheDir' = effect.cache_dir
              /\ outDir' = effect.out_dir
              /\ ociLast' = Call("unpack_layers", self, Some(arch), Some(manifest_list), effect,
                                 Hit(manifest_list, arch))
              /\ UNCHANGED imageTool

ArchivePullImage ==
    \E source \in ArchiveSources, tool_ok \in BOOLEAN :
       LET effect == archive_pull_image(source, cacheDir, outDir, tool_ok)
       IN  /\ cacheDir' = effect.cache_dir
           /\ outDir' = effect.out_dir
           /\ ociLast' = Call("archive_pull_image", source, None, None, effect,
                              replace(source.digest, ":", "-") \in DOMAIN cacheDir)
           /\ UNCHANGED imageTool

ArchiveUnpackLayers ==
    \E source \in ArchiveSources, tool_ok \in BOOLEAN :
       LET effect == archive_unpack_layers(source, cacheDir, outDir, tool_ok)
       IN  /\ cacheDir' = effect.cache_dir
           /\ outDir' = effect.out_dir
           /\ ociLast' = Call("archive_unpack_layers", source, None, None, effect,
                              replace(source.digest, ":", "-") \in DOMAIN cacheDir)
           /\ UNCHANGED imageTool

\* ------------------------------------------------------------------------
\* Specifications.
\* ------------------------------------------------------------------------
Init == MachineInit /\ ResolverIdle /\ OciIdle

Next ==
    \/ (Load /\ UNCHANGED resolverVars /\ UNCHANGED ociVars)
    \/ (Drop /\ UNCHANGED resolverVars /\ UNCHANGED ociVars)
    \/ (Republish /\ UNCHANGED resolverVars /\ UNCHANGED ociVars)
    \/ (LoadLockBegin /\ UNCHANGED resolverVars /\ UNCHANGED ociVars)
    \/ (LoadLockResolve /\ UNCHANGED resolverVars /\ UNCHANGED ociVars)
    \/ (CreateLockBegin /\ UNCHANGED resolverVars /\ UNCHANGED ociVars)
    \/ (CreateLockResolve /\ UNCHANGED resolverVars /\ UNCHANGED ociVars)

Spec == Init /\ [][Next]_vars

InitResolve == ResolverInit /\ MachineIdle /\ OciIdle

NextResolve ==
    \/ (Resolve /\ UNCHANGED machineVars /\ UNCHANGED ociVars)
    \/ (RemoveVendorEntry /\ UNCHANGED machineVars /\ UNCHANGED ociVars)
    \/ (SetOverride /\ UNCHANGED machineVars /\ UNCHANGED ociVars)
    \/ (RemoveOverride /\ UNCHANGED machineVars /\ UNCHANGED ociVars)

SpecResolve == InitResolve /\ [][NextResolve]_vars

InitLock == LockInit /\ ResolverIdle /\ imageTool \in ImageTools /\ CacheIdle

NextLock ==
    \/ (EditManifest /\ UNCHANGED resolverVars /\ UNCHANGED cacheVars)
    \/ (UpdateCommand /\ UNCHANGED resolverVars /\ UNCHANGED cacheVars)
    \/ (LoadLockCommand /\ UNCHANGED resolverVars /\ UNCHANGED cacheVars)

SpecLock == InitLock /\ [][NextLock]_vars

InitLoad == LoadInit /\ ResolverIdle /\ imageTool = "docker" /\ CacheIdle

NextLoad ==
    \/ (LoadCommand /\ UNCHANGED resolverVars /\ UNCHANGED cacheVars)
    \/ (EditReleaseToml /\ UNCHANGED resolverVars /\ UNCHANGED cacheVars)
    \/ (EditOverrideFile /\ UNCHANGED resolverVars /\ UNCHANGED cacheVars)

SpecLoad == InitLoad /\ [][NextLoad]_vars

InitOci == CacheInit /\ MachineIdle /\ ResolverIdle /\ imageTool = "docker" /\ ExtraIdle

NextOci ==
    \/ (OciPullImage /\ UNCHANGED machineVars /\ UNCHANGED resolverVars
          /\ UNCHANGED extraVars)
    \/ (OciUnpackLayers /\ UNCHANGED machineVars /\ UNCHANGED resolverVars
          /\ UNCHANGED extraVars)
    \/ (ArchivePullImage /\ UNCHANGED machineVars /\ UNCHANGED resolverVars
          /\ UNCHANGED extraVars)
    \/ (ArchiveUnpackLayers /\ UNCHANGED machineVars /\ UNCHANGED resolverVars
          /\ UNCHANGED extraVars)

SpecOci == InitOci /\ [][NextOci]_vars

InitIdent ==
    /\ IdentInit /\ MachineIdle /\ ResolverIdle /\ imageTool = "docker" /\ OciCacheIdle
    /\ FindIdle /\ DigestIdle /\ UnpackIdle /\ LateIdle

NextIdent ==
    \/ (ParseIdentifier /\ UNCHANGED machineVars /\ UNCHANGED resolverVars
          /\ UNCHANGED engineVars /\ UNCHANGED findVars
          /\ UNCHANGED digestVars /\ UNCHANGED unpackVars /\ UNCHANGED lateVars)
    \/ (LoadNames /\ UNCHANGED machineVars /\ UNCHANGED resolverVars
          /\ UNCHANGED engineVars /\ UNCHANGED findVars
          /\ UNCHANGED digestVars /\ UNCHANGED unpackVars /\ UNCHANGED lateVars)

SpecIdent == InitIdent /\ [][NextIdent]_vars

InitFind ==
    /\ FindInit /\ MachineIdle /\ ResolverIdle /\ imageTool = "docker" /\ OciCacheIdle
    /\ IdentIdle /\ DigestIdle /\ UnpackIdle /\ LateIdle

NextFind ==
    \/ (FindAndLoad /\ UNCHANGED machineVars /\ UNCHANGED resolverVars
          /\ UNCHANGED engineVars /\ UNCHANGED identVars
          /\ UNCHANGED digestVars /\ UNCHANGED unpackVars /\ UNCHANGED lateVars)
    \/ (FindStep /\ UNCHANGED machineVars /\ UNCHANGED resolverVars
          /\ UNCHANGED engineVars /\ UNCHANGED identVars
          /\ UNCHANGED digestVars /\ UNCHANGED unpackVars /\ UNCHANGED lateVars)

\* The call is made and the invocation in flight is polled until it returns.
SpecFind == InitFind /\ [][NextFind]_vars /\ WF_vars(NextFind)

InitDigest ==
    /\ DigestInit /\ MachineIdle /\ ResolverIdle /\ imageTool = "docker" /\ OciCacheIdle
    /\ IdentIdle /\ FindIdle /\ UnpackIdle /\ LateIdle

NextDigest ==
    \/ (DigestCall /\ UNCHANGED machineVars /\ UNCHANGED resolverVars
          /\ UNCHANGED engineVars /\ UNCHANGED identVars /\ UNCHANGED findVars
          /\ UNCHANGED unpackVars /\ UNCHANGED lateVars)
    \/ (RewriteArchive /\ UNCHANGED machineVars /\ UNCHANGED resolverVars
          /\ UNCHANGED engineVars /\ UNCHANGED identVars /\ UNCHANGED findVars
          /\ UNCHANGED unpackVars /\ UNCHANGED lateVars)

SpecDigest == InitDigest /\ [][NextDigest]_vars

othersIdle ==
    /\ MachineIdle /\ ResolverIdle /\ imageTool = "docker" /\ OciCacheIdle
    /\ IdentIdle /\ FindIdle /\ DigestIdle /\ LateIdle

others == <<machineVars, resolverVars, engineVars, identVars, findVars, digestVars,
            lateVars>>

InitUnpack == UnpackInit /\ othersIdle

NextUnpack ==
    \/ (UpCall(1) /\ UNCHANGED others)
    \/ (UpCheck(1) /\ UNCHANGED others)
    \/ (UpRemove(1, TRUE) /\ UNCHANGED others)
    \/ (UpCreate(1) /\ UNCHANGED others)
    \/ (UpIndex(1) /\ UNCHANGED others)
    \/ (UpManifest(1) /\ UNCHANGED others)
    \/ (UpLayer(1) /\ UNCHANGED others)
    \/ (UpMarker(1) /\ UNCHANGED others)
    \/ (UpAbandon(1) /\ UNCHANGED others)

SpecUnpack == InitUnpack /\ [][NextUnpack]_vars

InitUnpackConc == UnpackConcInit /\ othersIdle

NextUnpackConc ==
    \/ (\E p \in Procs : UpCall(p) /\ UNCHANGED others)
    \/ (\E p \in Procs : UpCheck(p) /\ UNCHANGED others)
    \/ (\E p \in Procs : UpRemove(p, FALSE) /\ UNCHANGED others)
    \/ (\E p \in Procs : UpCreate(p) /\ UNCHANGED others)
    \/ (\E p \in Procs : UpIndex(p) /\ UNCHANGED others)
    \/ (\E p \in Procs : UpManifest(p) /\ UNCHANGED others)
    \/ (\E p \in Procs : UpLayer(p) /\ UNCHANGED others)
    \/ (\E p \in Procs : UpMarker(p) /\ UNCHANGED others)

SpecUnpackConc == InitUnpackConc /\ [][NextUnpackConc]_vars

\* ------------------------------------------------------------------------
\* Properties of the resolver (SpecResolve).
\* ------------------------------------------------------------------------

\* C1: resolving an image (vendor_for, as_project_image) succeeds if and only if
\* the image's vendor name is a key of the vendor table; an override entry for
\* the vendor name does not make it succeed, and once the vendor entry is
\* removed the same image fails.
C1_ResolveIffVendorPresent ==
    rOut.ran =>
        /\ (rOut.vendor # None) <=> (rImage.vendor \in DOMAIN rProject.vendor)
        /\ rOut.image.ok <=> (rImage.vendor \in DOMAIN rProject.vendor)
        /\ rEdit = "vendor_removed" => ~rOut.image.ok

\* The image resolved, its vendor was removed, and it fails although an
\* override for it is still there.
C1_Witness ==
    /\ rOut.ran /\ rEdit = "vendor_removed"
    /\ rPrev.image.ok /\ ~rOut.image.ok
    /\ OverrideEntry(rProject, rImage) # None

\* C3: for an image whose vendor is in the vendor table the resolution is
\* Overridden(vendor, override) exactly when the override table has an entry for
\* (image.vendor, image.name), and Verbatim(vendor) otherwise; the vendor kept is
\* the vendor table's, unmodified.
C3_OverriddenIffEntry ==
    (rOut.ran /\ rImage.vendor \in DOMAIN rProject.vendor) =>
        /\ rOut.vendor # None
        /\ LET av == rOut.vendor[1]
               entry == OverrideEntry(rProject, rImage)
           IN  /\ av.kind = IF entry # None THEN "Overridden" ELSE "Verbatim"
               /\ av.override_ = entry
               /\ av.vendor_name = rImage.vendor
               /\ av.vendor = rProject.vendor[rImage.vendor]
               /\ original_vendor(av).vendor = rProject.vendor[rImage.vendor]

\* An image resolved Overridden with an override that sets a registry; the
\* vendor kept is the vendor table's.
C3_Witness ==
    /\ rOut.ran /\ rOut.vendor # None
    /\ rOut.vendor[1].kind = "Overridden"
    /\ rOut.vendor[1].override_[1].registry # None
    /\ rOut.vendor[1].vendor = rProject.vendor[rImage.vendor]

\* C4: project_image_uri() has the override's registry if set, else the
\* vendor's; the override's name if set, else the image name; and the tag
\* 'v' followed by the version.
C4_ProjectImageUri ==
    (rOut.ran /\ rOut.image.ok) =>
        LET entry == OverrideEntry(rProject, rImage)
            uri == rOut.project_uri[1]
        IN  /\ uri.registry =
                   Some(IF entry # None /\ entry[1].registry # None
                        THEN entry[1].registry[1]
                        ELSE rProject.vendor[rImage.vendor].registry)
            /\ uri.repo = IF entry # None /\ entry[1].name # None
                          THEN entry[1].name[1]
                          ELSE rImage.name
            /\ uri.tag = <<"v", rImage.version>>

\* An override that sets only the registry: the URI has the override's registry
\* and keeps the image name.
C4_Witness ==
    /\ rOut.ran /\ rOut.image.ok
    /\ OverrideEntry(rProject, rImage) =
           Some([name |-> None, registry |-> Some("localhost:5001")])
    /\ rOut.project_uri[1].registry = Some("localhost:5001")
    /\ rOut.project_uri[1].repo = rImage.name

\* C5: original_source_uri() is (vendor registry, image name, v{version}) with or
\* without an override and whatever the override holds; for a Verbatim
\* resolution it equals project_image_uri().
C5_OriginalSourceUri ==
    (rOut.ran /\ rOut.image.ok) =>
        /\ rOut.original_uri =
               Some([registry |-> Some(rProject.vendor[rImage.vendor].registry),
                     repo |-> rImage.name,
                     tag |-> <<"v", rImage.version>>])
        /\ rOut.image.value[1].vendor.kind = "Verbatim" =>
               rOut.original_uri = rOut.project_uri
        /\ (rEdit \in {"override_set", "override_removed"} /\ rPrev.image.ok) =>
               rOut.original_uri = rPrev.original_uri

\* The override of an image was removed: the project URI changed, the original
\* source URI did not.
C5_Witness ==
    /\ rOut.ran /\ rOut.image.ok /\ rEdit = "override_removed"
    /\ rPrev.project_uri # rOut.project_uri
    /\ rPrev.original_uri = rOut.original_uri

\* ------------------------------------------------------------------------
\* Properties of the project machine (Spec).
\* ------------------------------------------------------------------------

\* The SDK or a kit of the manifest names a vendor that is not in its vendor
\* table (or the table is absent).
UnknownVendor(m) ==
    \E image \in (IF m.sdk = None THEN {} ELSE {m.sdk[1]})
                    \cup (IF m.kit = None THEN {} ELSE Range(m.kit[1])) :
        \/ m.vendor = None
        \/ image.vendor \notin DOMAIN m.vendor[1]

\* C2: Project::load rejects a manifest in which the SDK or a kit names a vendor
\* that is not in the vendor table (or the table is absent): no project value
\* exists for it, and no vendor query is ever issued for such a project.
C2_LoadRejectsUnknownVendor ==
    /\ (last.name = "load" /\ UnknownVendor(manifest)) => last.result = "err"
    /\ \A h \in BagToSet(projects) : VendorsKnown(h.value)
    /\ \A q \in queried : q.vendors_known
    /\ UnknownVendor(manifest) => (projects = EmptyBag /\ queried = {})

\* load failed on a manifest with an SDK, a kit and no vendor table.
C2_Witness ==
    /\ last.name = "load" /\ last.result = "err"
    /\ manifest.vendor = None /\ manifest.sdk # None /\ manifest.kit # None
    /\ queried = {}

\* C6: a project in phase Locked or SDKLocked is held only as the result of a
\* lock resolution (Lock::create, Lock::load, LockedSDK::load) that returned
\* success, and its lock is the one that resolution returned.
C6_LockedOnlyByResolution ==
    \A h \in BagToSet(projects) :
        Phase(h.value) \in {"SDKLocked", "Locked"} =>
            /\ h.origin = Some(h.value.lock)
            /\ h.value.lock.sdk # None
            /\ h.value.lock.sdk[1].digest.sha256.rev \in 1..epoch

\* The caller holds an SDKLocked and a Locked project.
C6_Witness ==
    /\ \E h \in BagToSet(projects) : Phase(h.value) = "SDKLocked"
    /\ \E h \in BagToSet(projects) : Phase(h.value) = "Locked"

\* C7: when create_lock or load_lock fails, the caller still holds the Unlocked
\* project it started from.
C7_FailedTransitionKeepsProject ==
    (last.name \in {"create_lock", "load_lock"} /\ last.result = "err") =>
        \E h \in BagToSet(projects) : h.value = last.self[1]

\* C8: no step changes a value the caller holds (a value stays as it is until it
\* is dropped or moved into create_lock), and the value a transition returns is
\* in a phase not earlier than that of the project it started from.
C8_PhasesOnlyForward ==
    [][/\ \/ Drop
          \/ CreateLockBegin
          \/ projects \sqsubseteq projects'
       /\ (op # Idle /\ op' = Idle) =>
              \A h \in BagToSet(projects') :
                  CopiesIn(h, projects') > CopiesIn(h, projects) =>
                      PhaseRank(Phase(h.value)) >= PhaseRank(Phase(op.self[1]))]_vars

\* load_lock returned a Locked project and the Unlocked project it was called on
\* is still held.
C8_Witness ==
    /\ last.name = "load_lock" /\ last.result = "ok"
    /\ Phase(last.value[1]) = "Locked"
    /\ \E h \in BagToSet(projects) : h.value = last.self[1] /\ Phase(h.value) = "Unlocked"

\* C9: when a lock transition (create_lock or load_lock) starts resolving, no
\* verification tag is on disk.
C9_NoTagsWhenResolutionBegins ==
    op.name \in {"create_lock", "load_lock"} => tags = NoTags

\* The tags one expects after a transition to this lock: one per verified
\* artifact, holding its digest.
TagsOf(lock) ==
    {<<TagKey(e), e.digest>> :
        e \in (IF lock.phase = "Unlocked" THEN {} ELSE {lock.sdk[1]})
                 \cup (IF lock.phase = "Locked" THEN Range(lock.kit) ELSE {})}

\* C10: after a successful lock transition the tags on disk are exactly one per
\* dependency it verified, each holding that dependency's digest; after a failed
\* one no tag is on disk.
C10_TagsAfterTransition ==
    last.name \in {"create_lock", "load_lock"} =>
        {<<k, tags[k]>> : k \in DOMAIN tags} =
            IF last.result = "ok" THEN TagsOf(last.value[1].lock) ELSE {}

\* The entries of a lock: the SDK and the kits.
LockEntries(lock) == {lock.sdk} \cup Range(lock.kit)

\* C11: every verification tag on disk records the digest its dependency has in
\* the newest lock (the lock of the most recent successful transition, which is
\* the one Twoliter.lock holds); no tag of an older lock stays beside a newer lock.
C11_TagsMatchNewestLock ==
    \A k \in DOMAIN tags :
        /\ lockfile # None
        /\ \E e \in LockEntries(from_toml(lockfile[1]).value[1]) :
               TagKey(e) = k /\ e.digest = tags[k]

\* ------------------------------------------------------------------------
\* Properties of the lock store (SpecLock).
\* ------------------------------------------------------------------------

\* The (name, version, vendor) triples a manifest declares.
ManifestTriples(m) ==
    {Triple(i) : i \in (IF m.sdk = None THEN {} ELSE {m.sdk[1]})
                          \cup (IF m.kit = None THEN {} ELSE Range(m.kit[1]))}

\* Some entry of Twoliter.lock is not declared, with the same version and
\* vendor, by Twoliter.toml.
StaleLockfile ==
    /\ lockfile # None
    /\ \E e \in LockEntries(from_toml(lockfile[1]).value[1]) :
          Triple(e) \notin ManifestTriples(manifest)

\* C12: loading Twoliter.lock into a Locked project fails whenever some entry's
\* (name, version, vendor) is not declared by the manifest with the same version
\* and vendor; no Locked project is produced from the stale lock.
C12_StaleLockRejected ==
    (last.name = "load_locked" /\ StaleLockfile) =>
        /\ last.result = "err"
        /\ \A h \in BagToSet(projects) : Phase(h.value) # "Locked"

\* The lock holds the kit at version 1, the manifest now declares it at version
\* 2 with the same vendor, and the load failed.
C12_Witness ==
    /\ last.name = "load_locked" /\ last.result = "err"
    /\ lockfile # None
    /\ Len(manifest.kit[1]) = 1
    /\ Len(from_toml(lockfile[1]).value[1].kit) = 1
    /\ from_toml(lockfile[1]).value[1].kit[1].version = 1
    /\ manifest.kit[1][1].version = 2
    /\ from_toml(lockfile[1]).value[1].kit[1].vendor = manifest.kit[1][1].vendor
    /\ from_toml(lockfile[1]).value[1].sdk.version = manifest.sdk[1].version

\* C13: the lock of every Locked project holds an entry for the SDK and for
\* every kit the project's manifest declares.
C13_LockedCoversManifest ==
    \A h \in BagToSet(projects) :
        Phase(h.value) = "Locked" =>
            /\ h.value.sdk # None
            /\ Triple(h.value.lock.sdk[1]) = Triple(h.value.sdk[1])
            /\ \A i \in DOMAIN h.value.kit :
                  \E e \in Range(h.value.lock.kit) : Triple(e) = Triple(h.value.kit[i])

ExpectedTable(image, table) ==
    LET vendors == manifest.vendor[1]
        overrides == overrideFile.table
        override_registry ==
            IF /\ image.vendor \in DOMAIN overrides
               /\ image.name \in DOMAIN overrides[image.vendor]
            THEN overrides[image.vendor][image.name].registry
            ELSE None
        reg == IF override_registry # None THEN override_registry[1]
               ELSE vendors[image.vendor].registry
    IN  /\ [i \in DOMAIN table |-> table[i][1]] = LockedImageKeys
        /\ table[1][2] = image.name
        /\ table[2][2] = <<image.version, ".", 0, ".", 0>>
        /\ table[3][2] = image.vendor
        /\ table[4][2] = <<reg, "/", image.name, ":", <<"v", image.version>>>>
        /\ table[5][2].sha256.rev \in 1..epoch

PullCalls == {"pull_image", "archive_pull_image"}

UnpackCalls == {"unpack_layers", "archive_unpack_layers"}

\* The cache entry a call is about, None when the manifest list has no entry for
\* the architecture asked for.
CallPath(call) ==
    IF call.name \in {"pull_image", "unpack_layers"}
    THEN IF target_digest(call.manifest[1], call.arch[1]) = None THEN None
         ELSE Some(replace(target_digest(call.manifest[1], call.arch[1])[1], ":", "-"))
    ELSE Some(replace(call.self[1].digest, ":", "-"))

\* C17: pull_image on a cache hit is a no-op for a Remote and for a Local
\* source: it returns success, makes no external pull, unpacks no archive and
\* leaves the cache directory as it was.
C17_PullImageHitIsNoOp ==
    [][(ociLast'.name \in PullCalls /\ ociLast'.hit)
        => /\ ociLast'.ok
           /\ ociLast'.pulls = 0
           /\ ociLast'.unpacks = 0
           /\ cacheDir' = cacheDir]_vars

\* C18: every cache entry that exists holds an image whose pull or unpack ran to
\* its end, and a pull_image that failed leaves no entry a later call takes for
\* a hit.
C18_CachePathsAreComplete ==
    /\ \A p \in DOMAIN cacheDir : cacheDir[p].state = "complete"
    /\ (ociLast.name \in PullCalls /\ ~ociLast.ok /\ CallPath(ociLast) # None)
        => CallPath(ociLast)[1] \notin DOMAIN cacheDir

Compared(call) ==
    IF call.name = "unpack_layers"
    THEN target_digest(call.manifest[1], call.arch[1])
    ELSE Some(call.self[1].digest)

\* C20: the marker a successful unpack_layers leaves is the value a call with
\* the same digest compares it with, and such a second call on the same output
\* directory returns success without removing or writing anything.
C20_UnpackLayersIdempotent ==
    /\ [](( /\ ociLast.name \in UnpackCalls
            /\ ociLast.ok)
          => /\ outDir # None
             /\ outDir[1].marker = Compared(ociLast))
    /\ [][( /\ ociLast.name \in UnpackCalls
            /\ ociLast.ok
            /\ ociLast'.name = ociLast.name
            /\ ociLast'.self = ociLast.self
            /\ ociLast'.arch = ociLast.arch
            /\ ociLast'.manifest = ociLast.manifest)
          => /\ ociLast'.ok
             /\ ~ociLast'.removed
             /\ outDir' = outDir]_vars

C25_UnsupportedSchemaFailsInParsing ==
    [][(last'.name = "load"
        /\ manifest.schema_version # SUPPORTED_TWOLITER_PROJECT_SCHEMA_VERSION)
        => /\ last'.result = "err"
           /\ load_failure(manifest, releaseToml, overrideFile) = "deserialize"
           /\ tags' = tags]_vars

C25_Witness ==
    /\ last.name = "load"
    /\ last.result = "err"
    /\ manifest.schema_version # SUPPORTED_TWOLITER_PROJECT_SCHEMA_VERSION
    /\ ~check_vendor_availability(manifest)
    /\ tags # NoTags

\* C28: a Project::load that fails on the manifest, the vendors, Release.toml
\* or the override file deletes no tag and changes nothing else on disk; tags
\* are deleted only by a load whose validation succeeded.
C28_FailedLoadLeavesDisk ==
    [][last'.name = "load"
        => /\ <<manifest, releaseToml, overrideFile, lockfile, epoch>>'
                = <<manifest, releaseToml, overrideFile, lockfile, epoch>>
           /\ load_failure(manifest, releaseToml, overrideFile) # "none"
                => (last'.result = "err" /\ tags' = tags)
           /\ tags' # tags
                => load_failure(manifest, releaseToml, overrideFile) = "none"]_vars

C28_Witness ==
    /\ last.name = "load"
    /\ last.result = "err"
    /\ load_failure(manifest, releaseToml, overrideFile) \in {"vendor", "release_toml", "overrides"}
    /\ tags # NoTags

\* ------------------------------------------------------------------------
\* Properties of identifiers (SpecIdent).
\* ------------------------------------------------------------------------
\* The code points of [A-Za-z0-9_-].
IdChars == (65..90) \cup (97..122) \cup (48..57) \cup {95, 45}

\* The text is non-empty and every char of it is in [A-Za-z0-9_-].
IdPattern(text) == Len(text) > 0 /\ \A i \in DOMAIN text : text[i] \in IdChars

\* C26: a string parses as an identifier iff it is non-empty and every char of
\* it is in [A-Za-z0-9_-], the identifier then holds the string as given; the
\* SDK name, kit name, dependency vendors and vendor-table key of a loaded
\* manifest all match the pattern.
C26_IdentifierPattern ==
    /\ (idOut.ran = "parse" /\ idInput.value.kind = "string")
        => /\ idOut.parsed.ok <=> IdPattern(idInput.value.text)
           /\ idOut.parsed.ok => idOut.parsed.value[1] = idInput.value.text
    /\ (idOut.ran = "load" /\ idOut.loaded.ok)
        => LET project == idOut.loaded.value[1]
           IN  /\ IdPattern(project.sdk.name)
               /\ IdPattern(project.sdk.vendor)
               /\ \A i \in DOMAIN project.kit :
                     IdPattern(project.kit[i].name) /\ IdPattern(project.kit[i].vendor)
               /\ \A k \in DOMAIN project.vendor : IdPattern(k)
               /\ idInput.value.kind = "string"
               /\ idInput.value.text \in
                     {project.sdk.name, project.sdk.vendor, project.kit[1].name}
                     \cup DOMAIN project.vendor

C26_Witness ==
    /\ idOut.ran = "load"
    /\ idOut.loaded.ok
    /\ idInput.slot = "vendor"
    /\ Len(idInput.value.text) = MaxIdLen
    /\ 45 \in {idInput.value.text[i] : i \in DOMAIN idInput.value.text}

\* ------------------------------------------------------------------------
\* Properties of find_and_load (SpecFind).
\* ------------------------------------------------------------------------
\* The directories on the path from the starting directory up to the root that
\* hold a file Twoliter.toml.
WithToml == {d \in DOMAIN findFs.toml : findFs.toml[d] = "file"}

Nearest == CHOOSE d \in WithToml : \A e \in WithToml : e <= d

\* C27: find_and_load returns for every starting path; it loads the Twoliter.toml
\* of the nearest directory from the starting directory up to the root that
\* holds one, and returns an error when the path is not a directory or when the
\* root is reached without finding one.
C27_FindAndLoadTerminates ==
    /\ [](findCall.pc = "done"
           => /\ findFs.start.kind # "dir" <=> findCall.result = "not_a_directory"
              /\ (findFs.start.kind = "dir" /\ WithToml = {})
                    <=> findCall.result = "no_parent"
              /\ (findFs.start.kind = "dir" /\ WithToml # {})
                    => /\ findCall.result \in {"loaded", "load_failed"}
                       /\ findCall.found = Some(Nearest))
    /\ (findCall.pc = "idle" ~> findCall.pc = "done")

C27_Witness ==
    /\ findCall.pc = "done"
    /\ findCall.result = "loaded"
    /\ findFs.start.depth = MaxDepth
    /\ findCall.found = Some(1)
    /\ findFs.toml[0] = "file"
    /\ findFs.toml[2] = "dir"

\* ------------------------------------------------------------------------
\* Properties of OCIArchiveSource::digest (SpecDigest).
\* ------------------------------------------------------------------------
\* C23: on one Local source the file is not hashed again once a digest() call
\* has succeeded, every successful call returns the value of the first one
\* whatever the file holds by then, and a failed hash leaves the digest unset;
\* on a Remote source digest() returns the digest it was built with.
C23_DigestMemoized ==
    /\ ~digLog.rehashed
    /\ \A i, j \in DOMAIN digLog.returned :
          (digLog.returned[i].ok /\ digLog.returned[j].ok)
            => digLog.returned[i] = digLog.returned[j]
    /\ \A i \in DOMAIN digLog.returned :
          digLog.returned[i].ok => digSource.digest = digLog.returned[i].value
    /\ (digSource.kind = "Local" /\ ~Succeeded(digLog)) => digSource.digest = None
    /\ digSource.kind = "Remote"
        => /\ digSource.digest = digLog.built
           /\ \A i \in DOMAIN digLog.returned :
                 digLog.returned[i] = Ok(digLog.built[1])

C23_Witness ==
    /\ digSource.kind = "Local"
    /\ Len(digLog.returned) = MaxCalls
    /\ ~digLog.returned[1].ok
    /\ digLog.returned[2].ok
    /\ digLog.returned[MaxCalls].ok
    /\ digLog.returned[MaxCalls].value # Some(sha256_digest(digFile))

earlier == <<machineVars, resolverVars, engineVars, identVars, findVars, digestVars,
             unpackVars>>

earlierIdle ==
    /\ MachineIdle /\ ResolverIdle /\ imageTool = "docker" /\ OciCacheIdle
    /\ IdentIdle /\ FindIdle /\ DigestIdle /\ UnpackIdle

InitLayers == LayerInit /\ earlierIdle /\ PullIdle /\ PathIdle /\ LocalIdle

NextLayers ==
    \/ (UnpackNextLayer /\ UNCHANGED earlier /\ UNCHANGED pullVars
          /\ UNCHANGED pathVars /\ UNCHANGED localVars)
    \/ (LayersDone /\ UNCHANGED earlier /\ UNCHANGED pullVars
          /\ UNCHANGED pathVars /\ UNCHANGED localVars)

SpecLayers == InitLayers /\ [][NextLayers]_vars

InitPull ==
    /\ PullInit
    /\ earlierIdle /\ LayerIdle /\ PathIdle /\ LocalIdle

NextPull ==
    \/ (\E p \in Procs : PullCall(p) /\ UNCHANGED earlier /\ UNCHANGED layerVars
          /\ UNCHANGED pathVars /\ UNCHANGED localVars)
    \/ (\E p \in Procs : PullExists(p) /\ UNCHANGED earlier /\ UNCHANGED layerVars
          /\ UNCHANGED pathVars /\ UNCHANGED localVars)
    \/ (\E p \in Procs : PullCreate(p) /\ UNCHANGED earlier /\ UNCHANGED layerVars
          /\ UNCHANGED pathVars /\ UNCHANGED localVars)
    \/ (\E p \in Procs : PullOciImage(p) /\ UNCHANGED earlier /\ UNCHANGED layerVars
          /\ UNCHANGED pathVars /\ UNCHANGED localVars)

SpecPull == InitPull /\ [][NextPull]_vars

InitPath == PathInit /\ earlierIdle /\ LayerIdle /\ PullIdle /\ LocalIdle

NextPath ==
    (CachePaths /\ UNCHANGED earlier /\ UNCHANGED layerVars /\ UNCHANGED pullVars
        /\ UNCHANGED localVars)

SpecPath == InitPath /\ [][NextPath]_vars

InitLocal == LocalInit /\ earlierIdle /\ LayerIdle /\ PullIdle /\ PathIdle

NextLocal ==
    (GetManifestLocal /\ UNCHANGED earlier /\ UNCHANGED layerVars /\ UNCHANGED pullVars
        /\ UNCHANGED pathVars)

SpecLocal == InitLocal /\ [][NextLocal]_vars

\* ------------------------------------------------------------------------
\* Claims on unpack_layers, statement by statement.
\* ------------------------------------------------------------------------
Extracted(digest) == LayerFiles(digest) \subseteq upOut.files

InExtraction(proc) == proc.pc \in {"create", "index", "manifest", "layers", "marker"}

\* C21: in every state of the output directory that one caller can reach,
\* calls that fail or are abandoned at any statement included, a digest file
\* that is present and equal to a digest D implies that every layer of D is
\* extracted; and a call that leaves its extraction unfinished leaves the
\* digest file absent.
C21_MarkerImpliesAllLayers ==
    /\ [](\A d \in Digests :
            (upOut.exists /\ upOut.marker = Some(d)) => Extracted(d))
    /\ [][(InExtraction(upProc[1]) /\ upProc'[1].pc \in {"failed", "abandoned"})
            => upOut'.marker = None]_vars

CacheFailures ==
    {"index_missing", "index_undecodable", "index_empty", "manifest_missing",
     "manifest_undecodable", "layer_missing", "layer_unpack"}

Applied(digest) == LayerFiles(digest) \cap upOut.files

\* C29: when unpack_layers fails because the index is missing or undecodable,
\* lists no manifest, the manifest blob is missing or undecodable, or a layer
\* blob is missing or cannot be unpacked, it returns an error, the output
\* directory has no digest file, and the output directory does not hold a
\* strict, non-empty subset of the image's layers.
C29_FailedUnpackAppliesNothing ==
    (upProc[1].pc = "failed" /\ upProc[1].result \in CacheFailures)
    => /\ upOut.marker = None
       /\ Applied(upProc[1].digest) \in {{}, LayerFiles(upProc[1].digest)}

\* C30: when the output directory has no digest file, or one that differs from
\* the target digest, a successful unpack_layers leaves in it exactly the files
\* of the target image's layers and a digest file equal to the target digest;
\* nothing of what was there before remains.
C30_UnpackReplacesOutDir ==
    (upProc[1].pc = "done" /\ ~upProc[1].hit)
    => /\ upOut.exists
       /\ upOut.files = LayerFiles(upProc[1].digest)
       /\ upOut.marker = Some(upProc[1].digest)

MarkerOf(digest) == {Some(marker_written(call, digest)) : call \in Calls}

\* C22: whatever the interleaving of two unpack_layers calls on the same output
\* directory, the directory never has the digest file of an image while a
\* layer file of that image is missing from it.
C22_ConcurrentUnpackIsSafe ==
    \A d \in Digests :
        (upOut.exists /\ upOut.marker \in MarkerOf(d)) => Extracted(d)

\* ------------------------------------------------------------------------
\* Claims on the layer loop.
\* ------------------------------------------------------------------------
Holding(p, k) == {i \in 1..k : p \in layerCall.entries[layerCall.layers[i]]}

Greatest(S) == CHOOSE i \in S : \A j \in S : j <= i

\* What the directory holds once the first k layers of the manifest are
\* unpacked in the order of the manifest.
AfterLayers(k) ==
    [p \in Paths |-> IF Holding(p, k) = {} THEN Absent
                    ELSE layerCall.layers[Greatest(Holding(p, k))]]

\* C31: within one unpack_layers call the layers are unpacked one at a time in
\* the order of the manifest, each wholly before the next: at every point of
\* the loop the directory holds the first k layers applied in order, so a path
\* that layers i < j both have is left with the content of layer j.
C31_LayersInManifestOrder ==
    /\ [](layerCall.pc # "idle" => layerDir = AfterLayers(layerCall.k))
    /\ [][layerCall'.k \in {layerCall.k, layerCall.k + 1}]_vars

\* The loop has ended on a manifest of which a later layer shadows a path of
\* an earlier one, and the path has the content of the later layer.
C31_Witness ==
    /\ layerCall.pc = "done"
    /\ \E p \in Paths : \E i, j \in 1..Len(layerCall.layers) :
          /\ i < j
          /\ {i, j} \subseteq Holding(p, Len(layerCall.layers))
          /\ j = Greatest(Holding(p, Len(layerCall.layers)))
          /\ layerDir[p] = layerCall.layers[j]

\* C32: with two pull_image calls for the same Remote digest running against
\* the same cache directory, in every interleaving the tool pulls the digest
\* at most once, and no call has returned Ok while the content of the image is
\* not at the cache path.
C32_ConcurrentPullOnce ==
    /\ \A d \in Digests : pullCache[d].pulls <= 1
    /\ \A p \in Procs :
          pullProc[p].pc = "done" => pullCache[pullProc[p].digest].state = "complete"

\* C33: the mapping from a digest to its cache path, cache_dir joined with the
\* digest with ':' replaced by '-', is injective: two different digests never
\* have the same cache path.
C33_CachePathInjective ==
    pathOut # None => (pathIn[1] # pathIn[2] => pathOut[1][1] # pathOut[1][2])

\* Two different digests of the same length, whose texts without the ':' are
\* the same, have got their cache paths.
C33_Witness ==
    /\ pathOut # None
    /\ pathIn[1] # pathIn[2]
    /\ SelectSeq(pathIn[1], LAMBDA c : c # ":") = SelectSeq(pathIn[2], LAMBDA c : c # ":")
    /\ pathOut[1][1] # pathOut[1][2]

\* The regular files of the directory whose name ends in the ending of `arch`.
NamedFor(arch) ==
    {n \in DOMAIN localDir : localDir[n].kind = "file" /\ n.ending = ArchEnding(arch)}

\* C34: for a Local source get_manifest yields a manifest list with one entry
\* for each architecture for which the directory has a regular file whose name
\* ends in '-x86_64.tar' (amd64) or '-aarch64.tar' (arm64), the digest of the
\* entry being the sha256 of the bytes of such a file; other files are
\* ignored, no architecture has two entries, and the call fails when there is
\* no such file.
C34_LocalManifestList ==
    localOut.ran =>
        IF \A a \in Archs : NamedFor(a) = {}
        THEN ~localOut.result.ok
        ELSE /\ localOut.result.ok
             /\ LET list == localOut.result.value[1].manifests
                IN  /\ {list[i].platform : i \in DOMAIN list}
                           = {Some(a) : a \in {b \in Archs : NamedFor(b) # {}}}
                    /\ \A i, j \in DOMAIN list :
                           list[i].platform = list[j].platform => i = j
                    /\ \A i \in DOMAIN list : \E a \in Archs : \E n \in NamedFor(a) :
                           /\ list[i].platform = Some(a)
                           /\ list[i].digest = sha256_digest(localDir[n].bytes)

\* ------------------------------------------------------------------------
\* Claims on the project across a phase transition.
\* ------------------------------------------------------------------------
ProjectFrame ==
    {"filepath", "project_dir", "schema_version", "release_version", "sdk", "vendor",
     "kit", "overrides"}

\* C35: a phase transition changes only the lock: the project that create_lock
\* or load_lock returns has the filepath, project_dir, schema_version,
\* release_version, sdk, vendor table, kit list and overrides of the Unlocked
\* project it was called on, and the step that returns it changes no value
\* the caller holds.
C35_TransitionChangesOnlyLock ==
    /\ []((last.name \in {"create_lock", "load_lock"} /\ last.result = "ok")
            => \A f \in ProjectFrame : last.value[1][f] = last.self[1][f])
    /\ [][(op.name \in {"create_lock", "load_lock"} /\ op' = Idle)
            => projects \sqsubseteq projects']_vars

\* create_lock returned a Locked project for an Unlocked project with an SDK,
\* a kit and a vendor table.
C35_Witness ==
    /\ last.name = "create_lock" /\ last.result = "ok"
    /\ Phase(last.self[1]) = "Unlocked"
    /\ Phase(last.value[1]) = "Locked"
    /\ last.self[1].sdk # None
    /\ Len(last.self[1].kit) > 0
    /\ last.value[1].kit = last.self[1].kit

\* Project<SDKLocked>::sdk_image, Project<Locked>::sdk_image and kits do not
\* panic on the project: the vendor of every locked entry is found.
LockedVendorsFound(project) ==
    /\ as_project_image(project, project.lock.sdk[1]).ok
    /\ \A i \in DOMAIN project.lock.kit :
          as_project_image(project, project.lock.kit[i]).ok

\* C36: for every project a successful Project::load produced, resolving the
\* declared SDK and every declared kit succeeds (direct_sdk_image_dep and
\* direct_kit_deps return no error), and for every project a successful
\* create_lock or load_lock produced the vendor of every locked entry is in
\* the vendor table, so that sdk_image() and kits() do not panic.
C36_DeclaredAndLockedVendorsResolve ==
    \A h \in BagToSet(projects) :
        /\ direct_kit_deps(h.value).ok
        /\ direct_sdk_image_dep(h.value) # None => direct_sdk_image_dep(h.value)[1].ok
        /\ Phase(h.value) \in {"SDKLocked", "Locked"} => LockedVendorsFound(h.value)

\* The caller holds a Locked project that declares an SDK and a kit and has
\* both locked, and an SDKLocked project.
C36_Witness ==
    /\ \E h \in BagToSet(projects) :
          /\ Phase(h.value) = "Locked"
          /\ h.value.sdk # None
          /\ Len(h.value.kit) > 0
          /\ direct_kit_deps(h.value).ok
          /\ Len(h.value.lock.kit) > 0
          /\ LockedVendorsFound(h.value)
    /\ \E h \in BagToSet(projects) :
          /\ Phase(h.value) = "SDKLocked"
          /\ LockedVendorsFound(h.value)

====
